---- MODULE Spec2Model ----
(***************************************************************************)
(* Model of the FTP server session of simple_ftp_server.py (FTPSession):   *)
(* the login state machine, path resolution, the filesystem commands, the  *)
(* two-phase rename and the passive-mode listener; of the client of        *)
(* simple_ftp.py (FTPConnection) talking to that server over a control and *)
(* a data connection; and of the text formats the two exchange.            *)
(*                                                                         *)
(* Strings that the code takes apart character by character (virtual and   *)
(* real paths) are sequences of one-character strings; os.path is the      *)
(* POSIX flavour (posixpath), the platform the server is written for.      *)
(***************************************************************************)
EXTENDS Integers, Sequences, FiniteSets, TLC

VARIABLES
    pc,             \* position of serve(): "start", "read", "accept", "transfer", "replied", "done"
    exit,           \* how serve() ended: "none", "quit", "eof", "fault"
    logged_in,      \* self.logged_in
    username,       \* self.username (None or a key of users)
    cwd,            \* self.cwd, a virtual path
    type_,          \* self.type
    rename_from,    \* self._rename_from (None when unset or None)
    pasv_listener,  \* self.pasv_listener (NoSock or a socket id)
    sockState,      \* every listener socket: "closed", "unbound" or "listening"
    backlog,        \* listening sockets that hold a queued client connection
    fs,             \* the filesystem at and below config.root: path -> entry
    cmd,            \* command name of the line being handled (serve: command)
    arg,            \* its argument (serve: arg)
    replies,        \* reply codes sent on the control connection for that line
    pasvFresh,      \* history: PASV ran after the last call of accept_data_connection
    nAccepted,      \* history: connections accepted since the last PASV
    rnfrOk,         \* history: RNFR replied 350 after the last RNTO (or the start)
    resolved,       \* what to_real_path returned to the path-resolution harness
    cpc,            \* position of the client thread inside FTPConnection
    cop,            \* the client operation in progress and its arguments
    last,           \* the client operation that finished before it, with its outcome
    resp,           \* what _read_response returned last
    sink,           \* chunks the client handed to retr_binary's callback / list_lines
    c2s,            \* control connection, client to server: lines not yet read
    s2c,            \* control connection, server to client: replies not yet read
    dconn,          \* the data connection: both ends and the bytes written to it
    trace,          \* history: events of the transfer in progress, in order
    ioFault,        \* history: a socket or file operation failed in this session
    cur,            \* the server thread that is running
    parked          \* the session objects and locals of the other server threads

vars == <<pc, exit, logged_in, username, cwd, type_, rename_from, pasv_listener,
          sockState, backlog, fs, cmd, arg, replies, pasvFresh, nAccepted, rnfrOk,
          resolved, cpc, cop, last, resp, sink, c2s, s2c, dconn, trace, ioFault,
          cur, parked>>

\* ------------------------------------------------------------------ bounds
\* longest path argument enumerated by the path-resolution specification
MaxArgLen == 5
\* longest cwd string the path-resolution specification follows
MaxCwdLen == 5
\* most files and directories that exist below the root at one time
MaxEntries == 1
\* longest upload a STOR receives
MaxFileLen == 1
\* listener sockets that can be open at one time
MaxSocks == 2

\* Python's None, for a field that otherwise holds a string / a socket
None == <<"None">>
NoSock == 0

\* --------------------------------------------------- str / os.path helpers
startswith(s, p) ==
    /\ Len(p) <= Len(s)
    /\ SubSeq(s, 1, Len(p)) = p

RECURSIVE lstrip(_)
lstrip(s) ==
    IF s # <<>> /\ Head(s) = "/" THEN lstrip(Tail(s)) ELSE s

RECURSIVE rstrip(_)
rstrip(s) ==
    IF s # <<>> /\ s[Len(s)] = "/" THEN rstrip(SubSeq(s, 1, Len(s) - 1)) ELSE s

HasSlash(s) == \E i \in 1..Len(s) : s[i] = "/"

FirstSlash(s) == CHOOSE i \in 1..Len(s) : s[i] = "/" /\ \A j \in 1..(i - 1) : s[j] # "/"

LastSlash(s) == CHOOSE i \in 1..Len(s) : s[i] = "/" /\ \A j \in (i + 1)..Len(s) : s[j] # "/"

RECURSIVE split(_)
split(s) ==
    IF ~HasSlash(s) THEN <<s>>
    ELSE <<SubSeq(s, 1, FirstSlash(s) - 1)>> \o split(SubSeq(s, FirstSlash(s) + 1, Len(s)))

RECURSIVE joinComps(_)
joinComps(comps) ==
    IF comps = <<>> THEN <<>>
    ELSE IF Len(comps) = 1 THEN comps[1]
    ELSE comps[1] \o <<"/">> \o joinComps(Tail(comps))

DotDot == <<".", ".">>

RECURSIVE collapse(_, _, _)
collapse(comps, new, initial) ==
    IF comps = <<>> THEN new
    ELSE LET c == Head(comps) IN
         IF c = <<>> \/ c = <<".">> THEN collapse(Tail(comps), new, initial)
         ELSE IF \/ c # DotDot
                 \/ (initial = 0 /\ new = <<>>)
                 \/ (new # <<>> /\ new[Len(new)] = DotDot)
              THEN collapse(Tail(comps), Append(new, c), initial)
         ELSE IF new # <<>>
              THEN collapse(Tail(comps), SubSeq(new, 1, Len(new) - 1), initial)
         ELSE collapse(Tail(comps), new, initial)

initial_slashes(path) ==
    IF ~startswith(path, <<"/">>) THEN 0
    ELSE IF startswith(path, <<"/", "/">>) /\ ~startswith(path, <<"/", "/", "/">>) THEN 2
    ELSE 1

normpath(path) ==
    IF path = <<>> THEN <<".">>
    ELSE LET n == initial_slashes(path)
             body == joinComps(collapse(split(path), <<>>, n))
             out == (IF n = 2 THEN <<"/", "/">> ELSE IF n = 1 THEN <<"/">> ELSE <<>>) \o body
         IN  IF out = <<>> THEN <<".">> ELSE out

join(a, b) ==
    IF startswith(b, <<"/">>) THEN b
    ELSE IF a = <<>> \/ a[Len(a)] = "/" THEN a \o b
    ELSE a \o <<"/">> \o b

\* abspath of a path that is already absolute (every caller joins with root first)
abspath(path) == normpath(path)

dirname(p) ==
    IF ~HasSlash(p) THEN <<>>
    ELSE LET head == SubSeq(p, 1, LastSlash(p)) IN
         IF rstrip(head) # <<>> THEN rstrip(head) ELSE head

\* config.root: os.path.abspath("./ftp_root"), an absolute normalized path
root == <<"/", "r">>

RECURSIVE commonLen(_, _)
commonLen(a, b) ==
    IF a # <<>> /\ b # <<>> /\ Head(a) = Head(b) THEN 1 + commonLen(Tail(a), Tail(b)) ELSE 0

nonEmpty(comps) == SelectSeq(comps, LAMBDA c : c # <<>>)

relpath(path, start) ==
    LET sl == nonEmpty(split(abspath(start)))
        pl == nonEmpty(split(abspath(path)))
        i == commonLen(sl, pl)
        rel == [k \in 1..(Len(sl) - i) |-> DotDot] \o SubSeq(pl, i + 1, Len(pl))
    IN  IF rel = <<>> THEN <<".">> ELSE joinComps(rel)

\* ------------------------------------------------------- str, more of it
\* s[i:j], counted from 0 and clipped to the string
slice(s, i, j) ==
    LET a == IF i < 0 THEN 0 ELSE i
        b == IF j > Len(s) THEN Len(s) ELSE j
    IN  IF a >= b THEN <<>> ELSE SubSeq(s, a + 1, b)

DigitChars == <<"0", "1", "2", "3", "4", "5", "6", "7", "8", "9">>

\* the ASCII decimal digits only: what int() takes
isdecimal(s) ==
    /\ s # <<>>
    /\ \A i \in 1..Len(s) : \E d \in 1..Len(DigitChars) : s[i] = DigitChars[d]

\* a character str.isdigit takes as a digit and int() does not, SUPERSCRIPT TWO
SuperscriptTwo == "^2"

\* str.isdigit
isdigit(s) ==
    /\ s # <<>>
    /\ \A i \in 1..Len(s) :
          s[i] = SuperscriptTwo \/ \E d \in 1..Len(DigitChars) : s[i] = DigitChars[d]

\* int(s) of a string of decimal digits
RECURSIVE int(_)
int(s) ==
    IF s = <<>> THEN 0
    ELSE 10 * int(SubSeq(s, 1, Len(s) - 1))
         + ((CHOOSE d \in 1..Len(DigitChars) : s[Len(s)] = DigitChars[d]) - 1)

\* str(n) / f"{n}" of an integer n >= 0
RECURSIVE str(_)
str(n) ==
    IF n < 10 THEN <<DigitChars[n + 1]>>
    ELSE str(n \div 10) \o <<DigitChars[(n % 10) + 1]>>

\* s.find(ch, start): the first index >= start (counted from 0) or -1
find(s, ch, start) ==
    LET hits == {i \in start..(Len(s) - 1) : s[i + 1] = ch}
    IN  IF hits = {} THEN -1 ELSE CHOOSE i \in hits : \A j \in hits : i <= j

\* s.split(ch)
RECURSIVE split_on(_, _)
split_on(s, ch) ==
    LET i == find(s, ch, 0)
    IN  IF i = -1 THEN <<s>>
        ELSE <<slice(s, 0, i)>> \o split_on(slice(s, i + 1, Len(s)), ch)

\* s.split(ch, 1)
split_once(s, ch) ==
    LET i == find(s, ch, 0)
    IN  IF i = -1 THEN <<s>> ELSE <<slice(s, 0, i), slice(s, i + 1, Len(s))>>

\* s.rstrip(chars)
RECURSIVE rstrip_chars(_, _)
rstrip_chars(s, chars) ==
    IF s # <<>> /\ s[Len(s)] \in chars
    THEN rstrip_chars(SubSeq(s, 1, Len(s) - 1), chars)
    ELSE s

\* s.strip(): white space off both ends
RECURSIVE strip(_)
strip(s) ==
    IF s # <<>> /\ s[Len(s)] \in {" ", "\r", "\n"} THEN strip(SubSeq(s, 1, Len(s) - 1))
    ELSE IF s # <<>> /\ s[1] \in {" ", "\r", "\n"} THEN strip(Tail(s))
    ELSE s

\* s.upper(), on the letters the model sends in lower case
upper(s) == [i \in 1..Len(s) |-> IF s[i] = "a" THEN "A" ELSE s[i]]

CRLF == <<"\r", "\n">>

\* the chunks of a stream, joined
RECURSIVE concat(_)
concat(chunks) == IF chunks = <<>> THEN <<>> ELSE Head(chunks) \o concat(Tail(chunks))

\* s.splitlines(): s cut at every "\r\n", "\r" and "\n", the breaks dropped
RECURSIVE splitlines(_)
splitlines(s) ==
    LET breaks == {i \in 1..Len(s) : s[i] \in {"\r", "\n"}}
        i == CHOOSE i \in breaks : \A j \in breaks : i <= j
        after == IF s[i] = "\r" /\ i < Len(s) /\ s[i + 1] = "\n" THEN i + 1 ELSE i
    IN  IF s = <<>> THEN <<>>
        ELSE IF breaks = {} THEN <<s>>
        ELSE <<slice(s, 0, i - 1)>> \o splitlines(slice(s, after, Len(s)))

\* ------------------------------------------------------------ to_real_path
to_real_path_no_normpath(cwd0, path0) ==
    LET path == IF ~startswith(path0, <<"/">>) THEN join(cwd0, path0) ELSE path0
        norm == path
        norm2 == IF ~startswith(norm, <<"/">>) THEN <<"/">> \o norm ELSE norm
        real == abspath(join(root, lstrip(norm2)))
    IN  IF ~startswith(real, root) THEN root ELSE real

to_real_path(cwd0, path0) ==
    LET path == IF ~startswith(path0, <<"/">>) THEN join(cwd0, path0) ELSE path0
        norm == normpath(path)
        norm2 == IF ~startswith(norm, <<"/">>) THEN <<"/">> \o norm ELSE norm
        real == abspath(join(root, lstrip(norm2)))
    IN  IF ~startswith(real, root) THEN root ELSE real

\* ------------------------------------------------------------- user table
Str_user == <<"u", "s", "e", "r">>
Str_guest == <<"g", "u", "e", "s", "t">>
Str_123456 == <<"1", "2", "3", "4", "5", "6">>

\* FTPConfig.users: the default table; perm "rw" / "r" as its set of characters
users ==
    [u \in {Str_user, Str_guest} |->
        IF u = Str_user THEN [password |-> Str_123456, perm |-> {"r", "w"}]
        ELSE [password |-> Str_guest, perm |-> {"r"}]]

\* --------------------------------------------------------------- arguments
UserArgs == {Str_user, Str_guest, <<"x">>}
PassArgs == {Str_123456, Str_guest, <<"x">>}
TypeArgs == {<<"I">>, <<>>}
PathArgs ==
    { <<>>, <<".", ".">>, <<"a">>, <<"/", "b">>, <<"a", "/", "b">> }

Byte == {0}
Uploads == UNION {[1..n -> Byte] : n \in 0..MaxFileLen}

SockIds == 1..MaxSocks

\* -------------------------------------------------------------- filesystem
\* An entry is a directory or a regular file with its bytes.  "/" (the parent
\* of root) is a directory that always exists and is not part of fs.
Dir == [dir |-> TRUE, data |-> <<>>]
File(d) == [dir |-> FALSE, data |-> d]

exists(f, p) == p = <<"/">> \/ p \in DOMAIN f
isdir(f, p) == p = <<"/">> \/ (p \in DOMAIN f /\ f[p].dir)
isfile(f, p) == p \in DOMAIN f /\ ~f[p].dir

under(p, d) == startswith(p, d \o <<"/">>)

put(f, p, e) == [q \in DOMAIN f \cup {p} |-> IF q = p THEN e ELSE f[q]]
drop(f, S) == [q \in DOMAIN f \ S |-> f[q]]

\* os.makedirs(p, exist_ok=True): raises when p is a file or lies below a file
RECURSIVE can_makedirs(_, _)
can_makedirs(f, p) ==
    IF exists(f, p) THEN isdir(f, p) ELSE can_makedirs(f, dirname(p))

RECURSIVE makedirs(_, _)
makedirs(f, p) ==
    IF exists(f, p) THEN f ELSE put(makedirs(f, dirname(p)), p, Dir)

\* os.rmdir(p): p is an empty directory
can_rmdir(f, p) ==
    /\ p \in DOMAIN f
    /\ f[p].dir
    /\ \A q \in DOMAIN f : ~under(q, p)

\* os.remove(p): p is not a directory
can_remove(f, p) == isfile(f, p)

\* os.rename(src, dst), POSIX rename(2)
can_rename(f, src, dst) ==
    /\ src \in DOMAIN f
    /\ isdir(f, dirname(dst))
    /\ \/ src = dst
       \/ /\ ~under(dst, src)
          /\ IF f[src].dir
             THEN ~exists(f, dst) \/ (isdir(f, dst) /\ \A q \in DOMAIN f : ~under(q, dst))
             ELSE ~isdir(f, dst)

rename(f, src, dst) ==
    IF src = dst THEN f
    ELSE LET moved == {q \in DOMAIN f : q = src \/ under(q, src)}
             kept == DOMAIN f \ (moved \cup {dst})
             to(q) == dst \o SubSeq(q, Len(src) + 1, Len(q))
         IN  [q \in kept \cup {to(m) : m \in moved} |->
                 IF q \in kept THEN f[q]
                 ELSE f[CHOOSE m \in moved : to(m) = q]]

\* open(p, "wb"): creates or truncates a regular file in an existing directory
can_open_wb(f, p) == isdir(f, dirname(p)) /\ ~isdir(f, p)

\* the model keeps at most MaxEntries entries below the root
WithinBound(f) == Cardinality(DOMAIN f \ {root}) <= MaxEntries

\* ------------------------------------------------------------ FTPSession
Client == <<cpc, cop, last, resp, sink>>
Wire == <<c2s, s2c, dconn>>
Threads == <<cur, parked>>
\* everything outside the one session object that serve() runs on
Peer == <<Client, Wire, trace, ioFault, Threads>>

\* a data connection that was never opened
NoData == [cli |-> "none", srv |-> "none", up |-> <<>>, down |-> <<>>]
\* no client operation
NoOp == [op |-> "none"]

\* no FTPConnection object: the peer of the session is the environment
no_client ==
    /\ cpc = "absent"
    /\ cop = NoOp
    /\ last = NoOp
    /\ resp = None
    /\ sink = <<>>
    /\ c2s = <<>>
    /\ s2c = <<>>
    /\ dconn = NoData
    /\ trace = <<>>
    /\ ioFault = FALSE

\* start_ftp_server has accepted one control connection
one_thread ==
    /\ cur = 1
    /\ parked = <<>>

\* FTPSession.__init__, over a root that FTPConfig.__post_init__ has created
Init ==
    /\ pc = "start"
    /\ exit = "none"
    /\ logged_in = FALSE
    /\ username = None
    /\ cwd = <<"/">>
    /\ type_ = <<"I">>
    /\ rename_from = None
    /\ pasv_listener = NoSock
    /\ sockState = [i \in SockIds |-> "closed"]
    /\ backlog = {}
    /\ fs = [p \in {root} |-> Dir]
    /\ cmd = ""
    /\ arg = <<>>
    /\ replies = <<>>
    /\ pasvFresh = FALSE
    /\ nAccepted = 0
    /\ rnfrOk = FALSE
    /\ resolved = None
    /\ no_client
    /\ one_thread

\* reply(): one more reply for the line being handled; the handler returns
Reply(codes) ==
    /\ replies' = codes
    /\ pc' = "replied"
    /\ exit' = exit

\* an exception leaves the handler: serve() has no except clause, its finally
\* closes the control connection
Raise ==
    /\ replies' = <<>>
    /\ pc' = "done"
    /\ exit' = "fault"

user_perm ==
    IF ~logged_in \/ username = None THEN {} ELSE users[username].perm

ensure_write_perm_logged_in == logged_in

ensure_write_perm == "w" \in user_perm

Session == <<logged_in, username, cwd, type_, rename_from, rnfrOk>>
Net == <<pasv_listener, sockState, backlog, pasvFresh, nAccepted>>

handle_USER(a) ==
    /\ IF a \in DOMAIN users
       THEN username' = a /\ Reply(<<331>>)
       ELSE username' = username /\ Reply(<<530>>)
    /\ UNCHANGED <<logged_in, cwd, type_, rename_from, rnfrOk, Net, fs>>

handle_PASS_keep_login(a) ==
    /\ IF username = None
       THEN logged_in' = logged_in /\ Reply(<<503>>)
       ELSE IF users[username].password = a
       THEN logged_in' = TRUE /\ Reply(<<230>>)
       ELSE logged_in' = logged_in /\ Reply(<<530>>)
    /\ UNCHANGED <<username, cwd, type_, rename_from, rnfrOk, Net, fs>>

handle_PASS(a) ==
    /\ IF username = None
       THEN logged_in' = logged_in /\ Reply(<<503>>)
       ELSE IF users[username].password = a
       THEN logged_in' = TRUE /\ Reply(<<230>>)
       ELSE logged_in' = FALSE /\ Reply(<<530>>)
    /\ UNCHANGED <<username, cwd, type_, rename_from, rnfrOk, Net, fs>>

handle_PWD ==
    /\ IF ~logged_in THEN Reply(<<530>>) ELSE Reply(<<257>>)
    /\ UNCHANGED <<Session, Net, fs>>

\* handle_CWD, lines 156-158: the directory CWD asks for
cwd_target(a) == to_real_path(cwd, IF a = <<>> THEN <<"/">> ELSE a)

\* handle_CWD, lines 161-162: the real path back to a virtual path rooted at "/"
to_virtual(new_real) ==
    LET rel == relpath(new_real, root)
    IN  IF rel = <<".">> THEN <<"/">> ELSE <<"/">> \o rel

handle_CWD(a) ==
    /\ IF ~logged_in
       THEN cwd' = cwd /\ Reply(<<530>>)
       ELSE IF isdir(fs, cwd_target(a))
       THEN cwd' = to_virtual(cwd_target(a)) /\ Reply(<<250>>)
       ELSE cwd' = cwd /\ Reply(<<550>>)
    /\ UNCHANGED <<logged_in, username, type_, rename_from, rnfrOk, Net, fs>>

handle_TYPE(a) ==
    /\ type_' = IF a = <<>> THEN <<"I">> ELSE a
    /\ Reply(<<200>>)
    /\ UNCHANGED <<logged_in, username, cwd, rename_from, rnfrOk, Net, fs>>

\* handle_PASV, lines 175-180: the previous listener after "Close any previous listener"
close_previous_skipped == sockState

close_previous ==
    IF pasv_listener # NoSock THEN [sockState EXCEPT ![pasv_listener] = "closed"] ELSE sockState

handle_PASV ==
    LET closed == close_previous
        \* a new socket object: not the one this PASV replaces
        free == {i \in SockIds : closed[i] = "closed" /\ i # pasv_listener}
        new == CHOOSE i \in free : \A j \in free : i <= j
    IN  /\ free # {}
        /\ pasv_listener' = new
        /\ backlog' = backlog \ {i \in SockIds : closed[i] = "closed"}
        /\ \E bind_ok \in BOOLEAN :
              IF bind_ok
              THEN sockState' = [closed EXCEPT ![new] = "listening"] /\ Reply(<<227>>)
              ELSE sockState' = [closed EXCEPT ![new] = "unbound"] /\ Reply(<<421>>)
        /\ pasvFresh' = TRUE
        /\ nAccepted' = 0
        /\ UNCHANGED <<Session, fs>>

\* accept_data_connection, the finally clause (lines 223-228)
accept_finally_keep ==
    /\ backlog' = backlog \ {pasv_listener}
    /\ UNCHANGED <<pasv_listener, sockState>>

accept_finally ==
    /\ sockState' = [sockState EXCEPT ![pasv_listener] = "closed"]
    /\ backlog' = backlog \ {pasv_listener}
    /\ pasv_listener' = NoSock

\* accept_data_connection up to accept(): no listener, accept() raising on a
\* socket that is not listening, or the thread blocking in accept()
accept_data_connection ==
    /\ pasvFresh' = FALSE
    /\ nAccepted' = nAccepted
    /\ IF pasv_listener = NoSock
       THEN Reply(<<425>>) /\ UNCHANGED <<pasv_listener, sockState, backlog>>
       ELSE IF sockState[pasv_listener] # "listening"
       THEN Reply(<<425>>) /\ accept_finally
       ELSE /\ pc' = "accept"
            /\ replies' = <<>>
            /\ exit' = exit
            /\ UNCHANGED <<pasv_listener, sockState, backlog>>

NoAccept == UNCHANGED Net

handle_LIST(a) ==
    /\ IF ~logged_in
       THEN Reply(<<530>>) /\ NoAccept
       ELSE accept_data_connection
    /\ UNCHANGED <<Session, fs>>

handle_RETR(a) ==
    /\ IF ~logged_in
       THEN Reply(<<530>>) /\ NoAccept
       ELSE IF ~isfile(fs, to_real_path(cwd, a))
       THEN Reply(<<550>>) /\ NoAccept
       ELSE accept_data_connection
    /\ UNCHANGED <<Session, fs>>

handle_STOR(a) ==
    /\ IF ~logged_in
       THEN Reply(<<530>>) /\ NoAccept /\ fs' = fs
       ELSE IF ~ensure_write_perm
       THEN Reply(<<550>>) /\ NoAccept /\ fs' = fs
       ELSE LET real_path == to_real_path(cwd, a) IN
            IF ~can_makedirs(fs, dirname(real_path))
            THEN Raise /\ NoAccept /\ fs' = fs
            ELSE /\ fs' = makedirs(fs, dirname(real_path))
                 /\ WithinBound(IF pasv_listener = NoSock THEN fs'
                                ELSE put(fs', real_path, Dir))
                 /\ accept_data_connection
    /\ UNCHANGED Session

handle_MKD(a) ==
    /\ IF ~logged_in
       THEN Reply(<<530>>) /\ fs' = fs
       ELSE IF ~ensure_write_perm
       THEN Reply(<<550>>) /\ fs' = fs
       ELSE LET real_path == to_real_path(cwd, a) IN
            IF can_makedirs(fs, real_path)
            THEN fs' = makedirs(fs, real_path) /\ WithinBound(fs') /\ Reply(<<257>>)
            ELSE fs' = fs /\ Reply(<<550>>)
    /\ UNCHANGED <<Session, Net>>

handle_RMD(a) ==
    /\ IF ~logged_in
       THEN Reply(<<530>>) /\ fs' = fs
       ELSE IF ~ensure_write_perm
       THEN Reply(<<550>>) /\ fs' = fs
       ELSE LET real_path == to_real_path(cwd, a) IN
            IF can_rmdir(fs, real_path)
            THEN fs' = drop(fs, {real_path}) /\ Reply(<<250>>)
            ELSE fs' = fs /\ Reply(<<550>>)
    /\ UNCHANGED <<Session, Net>>

handle_DELE(a) ==
    /\ IF ~logged_in
       THEN Reply(<<530>>) /\ fs' = fs
       ELSE IF ~ensure_write_perm
       THEN Reply(<<550>>) /\ fs' = fs
       ELSE LET real_path == to_real_path(cwd, a) IN
            IF can_remove(fs, real_path)
            THEN fs' = drop(fs, {real_path}) /\ Reply(<<250>>)
            ELSE fs' = fs /\ Reply(<<550>>)
    /\ UNCHANGED <<Session, Net>>

handle_RNFR_keep_pending(a) ==
    /\ IF ~logged_in
       THEN Reply(<<530>>) /\ UNCHANGED <<rename_from, rnfrOk>>
       ELSE IF ~ensure_write_perm
       THEN Reply(<<550>>) /\ UNCHANGED <<rename_from, rnfrOk>>
       ELSE IF ~exists(fs, to_real_path(cwd, a))
       THEN Reply(<<550>>) /\ UNCHANGED <<rename_from, rnfrOk>>
       ELSE rename_from' = to_real_path(cwd, a) /\ rnfrOk' = TRUE /\ Reply(<<350>>)
    /\ UNCHANGED <<logged_in, username, cwd, type_, Net, fs>>

handle_RNFR(a) ==
    /\ IF ~logged_in
       THEN Reply(<<530>>) /\ UNCHANGED <<rename_from, rnfrOk>>
       ELSE IF ~ensure_write_perm
       THEN Reply(<<550>>) /\ UNCHANGED <<rename_from, rnfrOk>>
       ELSE IF ~exists(fs, to_real_path(cwd, a))
       THEN Reply(<<550>>) /\ rename_from' = None /\ rnfrOk' = rnfrOk
       ELSE rename_from' = to_real_path(cwd, a) /\ rnfrOk' = TRUE /\ Reply(<<350>>)
    /\ UNCHANGED <<logged_in, username, cwd, type_, Net, fs>>

handle_RNTO_keep_on_failure(a) ==
    /\ IF rename_from = None
       THEN Reply(<<503>>) /\ UNCHANGED <<rename_from, fs>>
       ELSE LET real_to == to_real_path(cwd, a) IN
            IF can_rename(fs, rename_from, real_to)
            THEN fs' = rename(fs, rename_from, real_to) /\ Reply(<<250>>) /\ rename_from' = None
            ELSE fs' = fs /\ Reply(<<550>>) /\ rename_from' = rename_from
    /\ rnfrOk' = FALSE
    /\ UNCHANGED <<logged_in, username, cwd, type_, Net>>

handle_RNTO(a) ==
    /\ IF rename_from = None
       THEN Reply(<<503>>) /\ UNCHANGED <<rename_from, fs>>
       ELSE LET real_to == to_real_path(cwd, a) IN
            /\ IF can_rename(fs, rename_from, real_to)
               THEN fs' = rename(fs, rename_from, real_to) /\ Reply(<<250>>)
               ELSE fs' = fs /\ Reply(<<550>>)
            /\ rename_from' = None
    /\ rnfrOk' = FALSE
    /\ UNCHANGED <<logged_in, username, cwd, type_, Net>>

handle_QUIT_goes_on ==
    /\ Reply(<<221>>)
    /\ UNCHANGED <<Session, Net, fs>>

handle_QUIT ==
    /\ replies' = <<221>>
    /\ pc' = "done"
    /\ exit' = "quit"
    /\ UNCHANGED <<Session, Net, fs>>

handle_unknown_500 ==
    /\ Reply(<<500>>)
    /\ UNCHANGED <<Session, Net, fs>>

handle_unknown ==
    /\ Reply(<<502>>)
    /\ UNCHANGED <<Session, Net, fs>>

handle_empty ==
    /\ Reply(<<>>)
    /\ UNCHANGED <<Session, Net, fs>>

\* the rest of handle_LIST / handle_RETR / handle_STOR after the 150 reply: the
\* transfer over the accepted data connection, then the completion reply
transfer_LIST ==
    /\ Reply(Append(replies, 226))
    /\ fs' = fs

\* sent: open(real_path, "rb") and every sendall succeeded
transfer_RETR(sent) ==
    /\ IF isfile(fs, to_real_path(cwd, arg)) /\ sent
       THEN Reply(Append(replies, 226))
       ELSE Reply(Append(replies, 550))
    /\ fs' = fs

\* data: the bytes recv returned and f.write wrote; eof: recv then returned
\* b"" (the peer closed) rather than raising
transfer_STOR(data, eof) ==
    LET real_path == to_real_path(cwd, arg) IN
    IF ~can_open_wb(fs, real_path)
    THEN Reply(Append(replies, 550)) /\ fs' = fs
    ELSE /\ fs' = put(fs, real_path, File(data))
         /\ IF eof THEN Reply(Append(replies, 226)) ELSE Reply(Append(replies, 550))

accept_returns_150_first(accepted) ==
    /\ accept_finally
    /\ pasvFresh' = pasvFresh
    /\ IF ~accepted
       THEN Reply(<<150, 425>>) /\ nAccepted' = nAccepted
       ELSE /\ nAccepted' = nAccepted + 1
            /\ replies' = <<150>>
            /\ pc' = "transfer"
            /\ exit' = exit
    /\ UNCHANGED <<Session, fs, cmd, arg, resolved>>

\* accept() returns in the thread blocked in accept_data_connection; on a
\* connection the handler goes on to its 150 reply
accept_returns(accepted) ==
    /\ accept_finally
    /\ pasvFresh' = pasvFresh
    /\ IF ~accepted
       THEN Reply(<<425>>) /\ nAccepted' = nAccepted
       ELSE /\ nAccepted' = nAccepted + 1
            /\ replies' = <<150>>
            /\ pc' = "transfer"
            /\ exit' = exit
    /\ UNCHANGED <<Session, fs, cmd, arg, resolved>>

accept_return ==
    /\ pc = "accept"
    /\ pasv_listener \in backlog
    /\ \E accepted \in BOOLEAN : accept_returns(accepted)
    /\ UNCHANGED Peer

\* the handler past its 150 reply, with a peer that sends or receives anything
transfer_data ==
    /\ pc = "transfer"
    /\ CASE cmd = "LIST" -> transfer_LIST
         [] cmd = "RETR" -> \E sent \in BOOLEAN : transfer_RETR(sent)
         [] cmd = "STOR" -> \E data \in Uploads, eof \in BOOLEAN : transfer_STOR(data, eof)
    /\ UNCHANGED <<Session, Net, cmd, arg, resolved, Peer>>

\* a client connects to a listening passive socket
client_connect ==
    /\ pc \in {"read", "accept"}
    /\ \E i \in SockIds :
          /\ sockState[i] = "listening"
          /\ i \notin backlog
          /\ backlog' = backlog \cup {i}
    /\ UNCHANGED <<pc, exit, Session, pasv_listener, sockState, fs, cmd, arg, replies,
                   pasvFresh, nAccepted, resolved, Peer>>

\* serve(): the banner
serve_banner ==
    /\ pc = "start"
    /\ Reply(<<220>>)
    /\ UNCHANGED <<Session, Net, fs, cmd, arg, resolved, Peer>>

\* serve(): back to read_command for the next line
serve_loop ==
    /\ pc = "replied"
    /\ pc' = "read"
    /\ cmd' = ""
    /\ arg' = <<>>
    /\ replies' = <<>>
    /\ UNCHANGED <<exit, Session, Net, fs, resolved, Peer>>

\* read_command() returns None: the client closed the control connection
read_eof ==
    /\ pc = "read"
    /\ pc' = "done"
    /\ exit' = "eof"
    /\ UNCHANGED <<Session, Net, fs, cmd, arg, replies, resolved, Peer>>

\* serve(): one line read, split and dispatched
dispatch(c, a) ==
    /\ pc = "read"
    /\ cmd' = c
    /\ arg' = a
    /\ resolved' = resolved
    /\ CASE c = "USER" -> handle_USER(a)
         [] c = "PASS" -> handle_PASS(a)
         [] c = "PWD" -> handle_PWD
         [] c = "CWD" -> handle_CWD(a)
         [] c = "TYPE" -> handle_TYPE(a)
         [] c = "PASV" -> handle_PASV
         [] c = "LIST" -> handle_LIST(a)
         [] c = "RETR" -> handle_RETR(a)
         [] c = "STOR" -> handle_STOR(a)
         [] c = "MKD" -> handle_MKD(a)
         [] c = "RMD" -> handle_RMD(a)
         [] c = "DELE" -> handle_DELE(a)
         [] c = "RNFR" -> handle_RNFR(a)
         [] c = "RNTO" -> handle_RNTO(a)
         [] c = "QUIT" -> handle_QUIT
         [] c = "" -> handle_empty
         [] OTHER -> handle_unknown

\* the same, read from a peer that may send any line
serve_command(c, a) ==
    /\ dispatch(c, a)
    /\ UNCHANGED Peer

PathCmds == {"CWD", "LIST", "RETR", "STOR", "MKD", "RMD", "DELE", "RNFR", "RNTO"}
NoArgCmds == {"PWD", "PASV", "QUIT", "", "NOOP"}

Next ==
    \/ serve_banner
    \/ serve_loop
    \/ read_eof
    \/ \E a \in UserArgs : serve_command("USER", a)
    \/ \E a \in PassArgs : serve_command("PASS", a)
    \/ \E a \in TypeArgs : serve_command("TYPE", a)
    \/ \E c \in PathCmds, a \in PathArgs : serve_command(c, a)
    \/ \E c \in NoArgCmds : serve_command(c, <<>>)
    \/ accept_return
    \/ transfer_data
    \/ client_connect

Spec == Init /\ [][Next]_vars

\* ------------------------------------------- path resolution on its own
\* Every path argument over Chars up to MaxArgLen is resolved against every
\* cwd that handle_CWD can produce when any directory may exist below root.
Chars == {"/", ".", "r"}
AllArgs == UNION {[1..n -> Chars] : n \in 0..MaxArgLen}

PathInit ==
    /\ pc = "path"
    /\ exit = "none"
    /\ logged_in = TRUE
    /\ username = Str_user
    /\ cwd = <<"/">>
    /\ type_ = <<"I">>
    /\ rename_from = None
    /\ pasv_listener = NoSock
    /\ sockState = [i \in SockIds |-> "closed"]
    /\ backlog = {}
    /\ fs = [p \in {root} |-> Dir]
    /\ cmd = ""
    /\ arg = <<>>
    /\ replies = <<>>
    /\ pasvFresh = FALSE
    /\ nAccepted = 0
    /\ rnfrOk = FALSE
    /\ resolved = None
    /\ no_client
    /\ one_thread

\* handle_CWD when the directory asked for exists
path_cwd(a) ==
    /\ pc = "path"
    /\ cwd' = to_virtual(cwd_target(a))
    /\ Len(cwd') <= MaxCwdLen
    /\ UNCHANGED <<pc, exit, logged_in, username, type_, rename_from, rnfrOk, Net, fs,
                   cmd, arg, replies, resolved, Peer>>

\* one call of to_real_path
path_resolve(a) ==
    /\ pc = "path"
    /\ pc' = "path_done"
    /\ arg' = a
    /\ resolved' = to_real_path(cwd, a)
    /\ UNCHANGED <<exit, Session, Net, fs, cmd, replies, Peer>>

PathNext ==
    \/ \E a \in AllArgs : path_cwd(a)
    \/ \E a \in AllArgs : path_resolve(a)

PathSpec == PathInit /\ [][PathNext]_vars

\* --------------------------------------------- the parts of an initial state
\* FTPSession.__init__: the fields of a new session, over an empty root
fresh_session ==
    /\ logged_in = FALSE
    /\ username = None
    /\ cwd = <<"/">>
    /\ type_ = <<"I">>
    /\ rename_from = None
    /\ rnfrOk = FALSE
    /\ fs = [p \in {root} |-> Dir]
    /\ resolved = None

no_listener ==
    /\ pasv_listener = NoSock
    /\ sockState = [i \in SockIds |-> "closed"]
    /\ backlog = {}
    /\ pasvFresh = FALSE
    /\ nAccepted = 0

\* serve() has read no line yet
no_line ==
    /\ cmd = ""
    /\ arg = <<>>
    /\ replies = <<>>

\* no data connection, nothing in flight, no history
quiet_wire ==
    /\ c2s = <<>>
    /\ s2c = <<>>
    /\ dconn = NoData
    /\ trace = <<>>
    /\ ioFault = FALSE

\* ------------------------------------ FTPConnection._read_response on its own
\* The client decodes a reply that any server may send, line by line.  A line
\* on the wire is its text and CRLF; the empty string is end of file.
LineChars == {"0", "1", " ", "-", "x"}
\* longest reply line the specification enumerates
MaxLineLen == 5
WireLines ==
    {<<>>} \cup {l \o CRLF : l \in UNION {[1..n -> LineChars] : n \in 0..MaxLineLen}}

FTPProtocolError == [kind |-> "FTPProtocolError"]
Returned(code, text) == [kind |-> "return", code |-> code, text |-> text]

\* _readline: "closed" at end of file, else the line without its CR and LF
readline_closed(raw) == raw = <<>>
readline(raw) == rstrip_chars(raw, {"\r", "\n"})

\* as response_first, were every failure raised as FTPProtocolError
response_first_checked(line) ==
    IF Len(line) < 3 \/ ~isdecimal(slice(line, 0, 3)) THEN FTPProtocolError
    ELSE LET code == int(slice(line, 0, 3))
             text == IF Len(line) > 3 THEN slice(line, 4, Len(line)) ELSE <<>>
         IN  IF Len(line) >= 4 /\ line[4] = "-"
             THEN [kind |-> "more", code |-> code, text |-> text]
             ELSE Returned(code, text)

\* _read_response, lines 77-84, on the first line: raise, return or read on
response_first(line) ==
    IF Len(line) < 3 \/ ~isdigit(slice(line, 0, 3)) THEN FTPProtocolError
    ELSE IF ~isdecimal(slice(line, 0, 3)) THEN [kind |-> "ValueError"]
    ELSE LET code == int(slice(line, 0, 3))
             text == IF Len(line) > 3 THEN slice(line, 4, Len(line)) ELSE <<>>
         IN  IF Len(line) >= 4 /\ line[4] = "-"
             THEN [kind |-> "more", code |-> code, text |-> text]
             ELSE Returned(code, text)

\* _read_response, lines 85-91, on a following line
response_next(code, next_line) ==
    IF startswith(next_line, str(code) \o <<" ">>)
    THEN Returned(code, IF Len(next_line) > 3 THEN slice(next_line, 4, Len(next_line))
                        ELSE <<>>)
    ELSE [kind |-> "more", code |-> code, text |-> <<>>]

ReplyInit ==
    /\ pc = "absent"
    /\ exit = "none"
    /\ fresh_session
    /\ no_listener
    /\ no_line
    /\ one_thread
    /\ quiet_wire
    /\ cpc = "response"
    /\ cop = [op |-> "read_response", first |-> TRUE, line |-> <<>>, code3 |-> <<>>,
              code |-> 0, final |-> FALSE]
    /\ last = NoOp
    /\ resp = None
    /\ sink = <<>>

\* one line of the reply: cop keeps the first line and the line that ended the
\* reply, whether the line was the first one, the three characters and the
\* number that introduced the reply, and whether a following line began with
\* those three characters and a space
read_line(raw, first) ==
    LET line == readline(raw)
        r == IF first THEN response_first(line) ELSE response_next(cop.code, line)
    IN  /\ cop' = [cop EXCEPT !.first = first,
                              !.line = IF first \/ r.kind # "more" THEN line ELSE <<>>,
                              !.code3 = IF first THEN slice(line, 0, 3) ELSE @,
                              !.code = IF first /\ r.kind \in {"more", "return"}
                                       THEN r.code ELSE @,
                              !.final = ~first /\ startswith(line, cop.code3 \o <<" ">>)]
        /\ IF readline_closed(raw) \/ r.kind = "FTPProtocolError"
           THEN resp' = FTPProtocolError /\ cpc' = "raised"
           ELSE IF r.kind = "ValueError"
           THEN resp' = r /\ cpc' = "raised"
           ELSE IF r.kind = "more"
           THEN resp' = resp /\ cpc' = "response_more"
           ELSE resp' = r /\ cpc' = "returned"
    /\ UNCHANGED <<pc, exit, Session, Net, fs, cmd, arg, replies, resolved, last, sink,
                   Wire, trace, ioFault, Threads>>

read_first(raw) ==
    /\ cpc = "response"
    /\ read_line(raw, TRUE)

read_next(raw) ==
    /\ cpc = "response_more"
    /\ read_line(raw, FALSE)

ReplyNext ==
    \/ \E raw \in WireLines : read_first(raw)
    \/ \E raw \in WireLines : read_next(raw)

ReplySpec == ReplyInit /\ [][ReplyNext]_vars

\* ------------------------------------------- the PASV address on its own
\* handle_PASV formats the address of its listener into the text of the 227
\* reply; _enter_passive_mode parses the text of a 227 reply of any server.
Octets == {0, 10, 255}
Ports == {0, 255, 256, 2121, 65535}
TextChars == {"(", ")", ",", "1"}
\* longest reply text of a foreign server the specification enumerates
MaxTextLen == 7

\* "h1.h2.h3.h4", the host as getsockname() and FTPConfig.host give it
dotted(o) == str(o[1]) \o <<".">> \o str(o[2]) \o <<".">> \o str(o[3]) \o <<".">> \o str(o[4])

pasv_text_low_byte_first(host, port) ==
    LET h == split_on(host, ".")
    IN  <<"E", "n", "t", "e", "r", "i", "n", "g", " ", "P", "a", "s", "s", "i", "v", "e",
          " ", "M", "o", "d", "e", " ", "(">>
        \o h[1] \o <<",">> \o h[2] \o <<",">> \o h[3] \o <<",">> \o h[4] \o <<",">>
        \o str(port % 256) \o <<",">> \o str(port \div 256) \o <<")", ".">>

\* handle_PASV, lines 199-207: the text of the 227 reply
pasv_text(host, port) ==
    LET h == split_on(host, ".")
        p1 == port \div 256
        p2 == port % 256
    IN  <<"E", "n", "t", "e", "r", "i", "n", "g", " ", "P", "a", "s", "s", "i", "v", "e",
          " ", "M", "o", "d", "e", " ", "(">>
        \o h[1] \o <<",">> \o h[2] \o <<",">> \o h[3] \o <<",">> \o h[4] \o <<",">>
        \o str(p1) \o <<",">> \o str(p2) \o <<")", ".">>

\* _enter_passive_mode, lines 210-222: FTPProtocolError, ValueError from int(),
\* or the address handed to socket.create_connection
enter_passive_mode(text) ==
    LET start == find(text, "(", 0)
        end == find(text, ")", start + 1)
        nums == split_on(slice(text, start + 1, end), ",")
    IN  IF start = -1 \/ end = -1 THEN FTPProtocolError
        ELSE IF Len(nums) # 6 THEN FTPProtocolError
        ELSE IF ~isdecimal(nums[5]) \/ ~isdecimal(nums[6]) THEN [kind |-> "ValueError"]
        ELSE [kind |-> "connect",
              host |-> nums[1] \o <<".">> \o nums[2] \o <<".">> \o nums[3] \o <<".">> \o nums[4],
              port |-> int(nums[5]) * 256 + int(nums[6])]

\* the client has sent PASV; the server is this one, in handle_PASV with its
\* listener bound (sockState is the listener's address), or a foreign one
PasvInit ==
    /\ exit = "none"
    /\ fresh_session
    /\ pasv_listener = NoSock
    /\ backlog = {}
    /\ pasvFresh = FALSE
    /\ nAccepted = 0
    /\ \/ /\ pc = "pasv"
          /\ \E o \in [1..4 -> Octets], port \in Ports :
                sockState = [octets |-> o, host |-> dotted(o), port |-> port]
       \/ /\ pc = "absent"
          /\ sockState = [i \in SockIds |-> "closed"]
    /\ no_line
    /\ one_thread
    /\ quiet_wire
    /\ cpc = "pasv"
    /\ cop = [op |-> "enter_passive_mode", text |-> <<>>]
    /\ last = NoOp
    /\ resp = None
    /\ sink = <<>>

pasv_reply ==
    /\ pc = "pasv"
    /\ pc' = "replied"
    /\ replies' = <<227>>
    /\ s2c' = <<pasv_text(sockState.host, sockState.port)>>
    /\ UNCHANGED <<exit, Session, Net, fs, cmd, arg, resolved, Client, c2s, dconn, trace,
                   ioFault, Threads>>

foreign_reply ==
    /\ pc = "absent"
    /\ s2c = <<>>
    /\ cpc = "pasv"
    /\ \E text \in UNION {[1..n -> TextChars] : n \in 0..MaxTextLen} : s2c' = <<text>>
    /\ UNCHANGED <<pc, exit, Session, Net, fs, cmd, arg, replies, resolved, Client, c2s,
                   dconn, trace, ioFault, Threads>>

pasv_parse ==
    /\ cpc = "pasv"
    /\ s2c # <<>>
    /\ cop' = [cop EXCEPT !.text = Head(s2c)]
    /\ resp' = enter_passive_mode(Head(s2c))
    /\ cpc' = "parsed"
    /\ s2c' = Tail(s2c)
    /\ UNCHANGED <<pc, exit, Session, Net, fs, cmd, arg, replies, resolved, last, sink,
                   c2s, dconn, trace, ioFault, Threads>>

PasvNext ==
    \/ pasv_reply
    \/ foreign_reply
    \/ pasv_parse

PasvSpec == PasvInit /\ [][PasvNext]_vars

\* ---------------------------------------- one command line, client to server
\* _send_cmd writes a command string and CRLF; serve() reads the line back with
\* read_command and splits it.  c2s is the byte stream of the control
\* connection, cmd the command name as serve() decoded it, character by character.
ArgChars == {" ", "a", "."}
\* longest command argument the specification enumerates
MaxCmdArgLen == 4

\* the command strings the client methods build: f"CWD {path}", f"STOR {filename}", "PWD"
CommandStrings ==
    {[name |-> n, has_arg |-> TRUE, arg |-> a] :
        n \in {<<"C", "W", "D">>, <<"S", "T", "O", "R">>},
        a \in UNION {[1..k -> ArgChars] : k \in 0..MaxCmdArgLen}}
    \cup {[name |-> <<"P", "W", "D">>, has_arg |-> FALSE, arg |-> <<>>]}

\* control_file.readline(): the bytes up to and including the first LF
file_readline(stream) == slice(stream, 0, find(stream, "\n", 0) + 1)

read_command_strip(raw) == strip(raw)

\* read_command, line 95, of a line that is not end of file
read_command(raw) == rstrip_chars(raw, {"\r", "\n"})

CmdInit ==
    /\ pc = "read"
    /\ exit = "none"
    /\ fresh_session
    /\ no_listener
    /\ no_line
    /\ one_thread
    /\ quiet_wire
    /\ cpc = "send"
    /\ \E c \in CommandStrings : cop = [op |-> "send_cmd"] @@ c
    /\ last = NoOp
    /\ resp = None
    /\ sink = <<>>

\* _send_cmd, lines 101-102
send_cmd ==
    /\ cpc = "send"
    /\ c2s' = c2s \o (IF cop.has_arg THEN cop.name \o <<" ">> \o cop.arg ELSE cop.name) \o CRLF
    /\ cpc' = "response"
    /\ UNCHANGED <<pc, exit, Session, Net, fs, cmd, arg, replies, resolved, cop, last, resp,
                   sink, s2c, dconn, trace, ioFault, Threads>>

\* serve(), lines 402-409: one line read and split
serve_read ==
    /\ pc = "read"
    /\ find(c2s, "\n", 0) # -1
    /\ LET raw == file_readline(c2s)
           cmdline == read_command(raw)
           parts == split_once(cmdline, " ")
       IN  /\ c2s' = slice(c2s, Len(raw), Len(c2s))
           /\ IF cmdline = <<>>
              THEN UNCHANGED <<pc, cmd, arg>>
              ELSE /\ pc' = "dispatch"
                   /\ cmd' = upper(parts[1])
                   /\ arg' = IF Len(parts) > 1 THEN parts[2] ELSE <<>>
    /\ UNCHANGED <<exit, Session, Net, fs, replies, resolved, Client, s2c, dconn, trace,
                   ioFault, Threads>>

CmdNext ==
    \/ send_cmd
    \/ serve_read

CmdSpec == CmdInit /\ [][CmdNext]_vars

\* ------------------------------------------------------------------ connect
\* connect(): socket.create_connection, then the banner read by
\* _read_response.  The peer is this server, whose serve() sends the banner, a
\* foreign server sending any lines, or nobody.
BannerChars == {"2", "0", " ", "-", SuperscriptTwo}
\* longest banner line a foreign server sends
MaxBannerLen == 4
BannerLines ==
    {<<>>} \cup {l \o CRLF : l \in UNION {[1..n -> BannerChars] : n \in 0..MaxBannerLen}}

\* reply(code, text) through _send_line: the line on the wire
reply_line(code, text) == str(code) \o <<" ">> \o text \o CRLF

ConnectInit ==
    /\ pc = "absent"
    /\ exit = "none"
    /\ fresh_session
    /\ no_listener
    /\ no_line
    /\ one_thread
    /\ quiet_wire
    /\ cpc = "unconnected"
    /\ cop = NoOp
    /\ last = NoOp
    /\ resp = None
    /\ sink = <<>>

\* connect(), lines 108-112: the connection opened, or OSError from
\* socket.create_connection
create_connection ==
    /\ cpc = "unconnected"
    /\ \E peer \in {"none", "start", "foreign"} :
          IF peer = "none"
          THEN /\ cpc' = "raised"
               /\ resp' = [kind |-> "OSError"]
               /\ UNCHANGED <<pc, cop>>
          ELSE /\ pc' = peer
               /\ cpc' = "response"
               /\ cop' = [op |-> "read_response", first |-> TRUE, line |-> <<>>,
                          code3 |-> <<>>, code |-> 0, final |-> FALSE]
               /\ resp' = resp
    /\ UNCHANGED <<exit, Session, Net, fs, cmd, arg, replies, resolved, last, sink, Wire,
                   trace, ioFault, Threads>>

\* the next line the client can read
Incoming ==
    CASE pc = "replied" /\ cop.first /\ cop.line = <<>> ->
            {reply_line(replies[1], <<"R", "e", "a", "d", "y">>)}
      [] pc = "foreign" -> BannerLines
      [] OTHER -> {}

\* connect(), lines 114-116: the code of the reply read
connect_check ==
    /\ cpc = "returned"
    /\ IF resp.code = 220
       THEN cpc' = "idle" /\ resp' = resp
       ELSE cpc' = "raised" /\ resp' = FTPProtocolError
    /\ UNCHANGED <<pc, exit, Session, Net, fs, cmd, arg, replies, resolved, cop, last, sink,
                   Wire, trace, ioFault, Threads>>

ConnectNext ==
    \/ create_connection
    \/ serve_banner
    \/ \E raw \in Incoming : read_first(raw)
    \/ \E raw \in Incoming : read_next(raw)
    \/ connect_check

ConnectSpec == ConnectInit /\ [][ConnectNext]_vars

\* ------------------------------------------ the client and the server, paired
\* One FTPConnection talks to one FTPSession.  c2s carries command lines as
\* <<name, argument>>, s2c reply codes; the data connection carries bytes.
\* trace records, in the order the calls happen, the events of the operation
\* in progress: PASV (sent), r227, dial, cmd (data command sent), accept, s150,
\* r150, s_bytes / c_bytes (bytes written or read by server / client),
\* s_close / c_close (data socket closed by server / client), s_done
\* (completion reply sent), r_done (completion reply read).
\* longest byte sequence stor_binary uploads
MaxPayload == 3
\* the uploaded byte sequences: one of each length, no byte twice, so that a
\* lost, repeated or misplaced byte shows
Payloads == {[i \in 1..k |-> i] : k \in 0..MaxPayload}
\* bytes per recv / read call, standing for the 4096 of the code
ChunkSize == 2
\* replies left unread by failed operations beyond which no operation is started
MaxUnread == 0

\* the reply codes the specification lists as in use
ListedCodes ==
    {125, 150, 220, 221, 226, 250, 230, 202, 257, 227, 331, 350, 421, 425, 502, 503, 530, 550}

FileNames == {<<"f">>, <<>>}
Operations ==
    {[op |-> "login", name |-> Str_user, data |-> Str_123456],
     [op |-> "login", name |-> Str_guest, data |-> Str_guest],
     [op |-> "login", name |-> Str_user, data |-> Str_123456 \o <<"\r">>],
     [op |-> "login", name |-> <<"x">>, data |-> Str_123456],
     [op |-> "list", name |-> <<>>, data |-> <<>>],
     [op |-> "quit", name |-> <<>>, data |-> <<>>]}
    \cup {[op |-> "retr", name |-> n, data |-> <<>>] : n \in FileNames}
    \cup {[op |-> "stor", name |-> n, data |-> d] :
             n \in FileNames, d \in Payloads}

\* the method returns or raises, leaving the client at position at
FinishAt(at, res) ==
    /\ cpc' = at
    /\ last' = [op |-> cop.op, name |-> cop.name, data |-> cop.data, sync |-> cop.sync,
                pre |-> cop.pre, fault |-> ioFault, res |-> res]

Finish(res) == FinishAt("idle", res)

PairInit ==
    /\ pc = "start"
    /\ exit = "none"
    /\ fresh_session
    /\ no_listener
    /\ no_line
    /\ one_thread
    /\ quiet_wire
    /\ cpc = "connect"
    /\ cop = NoOp
    /\ last = NoOp
    /\ resp = 0          \* no reply read yet: 0 is no reply code
    /\ sink = <<>>

\* the command a method sends first, and the position it then waits at
FirstCommand(o) ==
    CASE o.op = "login" -> <<"USER", o.name>>
      [] o.op = "quit" -> <<"QUIT", <<>>>>
      [] o.op = "rename" -> <<"RNFR", o.name>>
      [] o.op = "pwd" -> <<"PWD", <<>>>>
      [] o.op = "cwd" -> <<"CWD", o.name>>
      [] o.op = "mkd" -> <<"MKD", o.name>>
      [] o.op = "rmd" -> <<"RMD", o.name>>
      [] o.op = "delete" -> <<"DELE", o.name>>
      [] OTHER -> <<"TYPE", <<"I">>>>
FirstWait(o) ==
    CASE o.op = "login" -> "user"
      [] o.op = "quit" -> "quit"
      [] o.op = "rename" -> "rnfr"
      [] o.op \in {"pwd", "cwd", "mkd", "rmd", "delete"} -> "simple"
      [] OTHER -> "type"
\* the reply codes pwd, cwd, mkd, rmd and delete take as success
Expected(op) ==
    CASE op = "pwd" -> {257}
      [] op = "mkd" -> {257, 250}
      [] OTHER -> {250}

\* a method of FTPConnection is called, one of ops, with at most unread
\* commands and replies of earlier operations still on their way.  On a connection (sock set) it
\* sends its first command, and sendall may raise once the server has closed;
\* without one, quit returns at once and every other method raises.
\* sync: no command and no reply is on its way and the server is at its
\* read; pre: sync, the session is logged in as a read-write user, and name
\* is no directory
client_call(ops, unread) ==
    /\ cpc \in {"idle", "closed"}
    /\ Len(c2s) + Len(s2c) <= unread
    /\ \E o \in ops, sent \in BOOLEAN :
          LET insync == s2c = <<>> /\ c2s = <<>> /\ pc \in {"read", "replied"}
              call == [op |-> o.op, name |-> o.name, data |-> o.data, rest |-> o.data,
                       sync |-> insync,
                       pre |-> /\ insync
                               /\ ensure_write_perm
                               /\ ~isdir(fs, to_real_path(cwd, o.name))]
              done(at, res) ==
                  /\ cpc' = at
                  /\ last' = [op |-> o.op, name |-> o.name, data |-> o.data,
                              sync |-> insync, pre |-> call.pre, fault |-> FALSE,
                              res |-> res]
                  /\ c2s' = c2s
          IN  /\ cop' = call
              /\ sent \/ (cpc = "idle" /\ pc = "done")
              /\ CASE cpc = "closed" ->
                        /\ sent
                        /\ done("closed", IF o.op = "quit" THEN "ok" ELSE "FTPProtocolError")
                   [] cpc = "idle" /\ ~sent ->
                        IF o.op = "quit" THEN done("closed", "ok") ELSE done("idle", "OSError")
                   [] OTHER ->
                        /\ c2s' = Append(c2s, FirstCommand(o))
                        /\ cpc' = FirstWait(o)
                        /\ last' = last
    /\ sink' = <<>>
    /\ trace' = <<>>
    /\ ioFault' = FALSE
    /\ UNCHANGED <<pc, exit, Session, Net, fs, cmd, arg, replies, resolved, resp,
                   s2c, dconn, Threads>>

client_start == client_call(Operations, MaxUnread)

ReplyAwaited ==
    {"connect", "user", "pass", "type", "pasv", "cmd", "completion", "quit", "rnfr", "rnto",
     "simple"}

\* _send_cmd / _read_response returns a reply: what the method does with it,
\* taking the codes of accepted as the completion of a transfer
reply_step(accepted) ==
    /\ cpc \in ReplyAwaited
    /\ s2c # <<>>
    /\ s2c' = Tail(s2c)
    /\ resp' = Head(s2c)
    /\ LET code == Head(s2c)
           stay == UNCHANGED <<c2s, dconn, trace>>
       IN  CASE cpc = "connect" ->
                  /\ IF code = 220 THEN cpc' = "idle" /\ last' = last
                     ELSE Finish("FTPProtocolError")
                  /\ stay
             [] cpc = "user" ->
                  IF code = 331
                  THEN /\ c2s' = Append(c2s, <<"PASS", cop.data>>)
                       /\ cpc' = "pass"
                       /\ UNCHANGED <<last, dconn, trace>>
                  ELSE Finish(IF code = 230 THEN "ok" ELSE "FTPProtocolError") /\ stay
             [] cpc = "pass" ->
                  Finish(IF code \in {230, 202} THEN "ok" ELSE "FTPProtocolError") /\ stay
             [] cpc = "type" ->
                  /\ c2s' = Append(c2s, <<"PASV", <<>>>>)
                  /\ cpc' = "pasv"
                  /\ trace' = Append(trace, "PASV")
                  /\ UNCHANGED <<last, dconn>>
             [] cpc = "pasv" ->
                  IF code # 227 THEN Finish("FTPProtocolError") /\ stay
                  ELSE /\ cpc' = "dial"
                       /\ trace' = Append(trace, "r227")
                       /\ UNCHANGED <<last, c2s, dconn>>
             [] cpc = "cmd" ->
                  IF code \notin {125, 150}
                  THEN /\ dconn' = [dconn EXCEPT !.cli = "closed"]
                       /\ Finish("FTPProtocolError")
                       /\ UNCHANGED <<c2s, trace>>
                  ELSE /\ cpc' = "stream"
                       /\ trace' = Append(trace, "r150")
                       /\ UNCHANGED <<last, c2s, dconn>>
             [] cpc = "completion" ->
                  /\ Finish(IF code \in accepted THEN "ok" ELSE "FTPProtocolError")
                  /\ trace' = Append(trace, "r_done")
                  /\ UNCHANGED <<c2s, dconn>>
             [] cpc = "quit" ->
                  FinishAt("closed", "ok") /\ stay
             [] cpc = "rnfr" ->
                  IF code # 350 THEN Finish("FTPProtocolError") /\ stay
                  ELSE /\ c2s' = Append(c2s, <<"RNTO", cop.data>>)
                       /\ cpc' = "rnto"
                       /\ UNCHANGED <<last, dconn, trace>>
             [] cpc = "rnto" ->
                  Finish(IF code = 250 THEN "ok" ELSE "FTPProtocolError") /\ stay
             [] cpc = "simple" ->
                  Finish(IF code \in Expected(cop.op) THEN "ok" ELSE "FTPProtocolError") /\ stay
    /\ UNCHANGED <<pc, exit, Session, Net, fs, cmd, arg, replies, resolved, cop, sink,
                   ioFault, Threads>>

client_reply_any_completion == reply_step(ListedCodes \cup {200})

client_reply == reply_step({226, 250})

\* _readline finds the control connection closed by the server: _read_response
\* raises FTPProtocolError, which quit alone catches
client_closed ==
    /\ cpc \in ReplyAwaited
    /\ s2c = <<>>
    /\ pc = "done"
    /\ IF cpc = "quit" THEN FinishAt("closed", "ok") ELSE Finish("FTPProtocolError")
    /\ UNCHANGED <<pc, exit, Session, Net, fs, cmd, arg, replies, resolved, cop, resp,
                   sink, Wire, trace, ioFault, Threads>>

\* the caller's sink raises on a chunk, or its source on a read: the with
\* block closes the data socket and the exception leaves the method
caller_raises ==
    /\ cpc = "stream"
    /\ \/ cop.op = "retr" /\ dconn.down # <<>>
       \/ cop.op = "stor"
    /\ dconn' = [dconn EXCEPT !.cli = "closed"]
    /\ trace' = Append(trace, "c_close")
    /\ ioFault' = TRUE
    /\ Finish("CallerError")
    /\ UNCHANGED <<pc, exit, Session, Net, fs, cmd, arg, replies, resolved, cop, resp,
                   sink, c2s, s2c, Threads>>

client_dial_command_first ==
    /\ cpc = "dial"
    /\ IF pasv_listener # NoSock /\ sockState[pasv_listener] = "listening"
       THEN /\ backlog' = backlog \cup {pasv_listener}
            /\ dconn' = [NoData EXCEPT !.cli = "open"]
            /\ c2s' = Append(c2s, <<CASE cop.op = "list" -> "LIST"
                                      [] cop.op = "retr" -> "RETR"
                                      [] cop.op = "stor" -> "STOR", cop.name>>)
            /\ cpc' = "cmd"
            /\ trace' = trace \o <<"cmd", "dial">>
            /\ last' = last
       ELSE /\ Finish("OSError")
            /\ UNCHANGED <<backlog, dconn, c2s, trace>>
    /\ UNCHANGED <<pc, exit, Session, pasv_listener, sockState, pasvFresh, nAccepted, fs,
                   cmd, arg, replies, resolved, cop, resp, sink, s2c, ioFault, Threads>>

\* _enter_passive_mode, line 222, then the data command is sent
client_dial ==
    /\ cpc = "dial"
    /\ IF pasv_listener # NoSock /\ sockState[pasv_listener] = "listening"
       THEN /\ backlog' = backlog \cup {pasv_listener}
            /\ dconn' = [NoData EXCEPT !.cli = "open"]
            /\ c2s' = Append(c2s, <<CASE cop.op = "list" -> "LIST"
                                      [] cop.op = "retr" -> "RETR"
                                      [] cop.op = "stor" -> "STOR", cop.name>>)
            /\ cpc' = "cmd"
            /\ trace' = trace \o <<"dial", "cmd">>
            /\ last' = last
       ELSE /\ Finish("OSError")
            /\ UNCHANGED <<backlog, dconn, c2s, trace>>
    /\ UNCHANGED <<pc, exit, Session, pasv_listener, sockState, pasvFresh, nAccepted, fs,
                   cmd, arg, replies, resolved, cop, resp, sink, s2c, ioFault, Threads>>

\* list_lines / retr_binary: one recv, a chunk or end of stream
client_recv ==
    /\ cpc = "stream"
    /\ cop.op \in {"list", "retr"}
    /\ \/ /\ dconn.down # <<>>
          /\ \E k \in 1..ChunkSize :
                /\ k <= Len(dconn.down)
                /\ sink' = IF cop.op = "list"
                           THEN <<concat(sink) \o slice(dconn.down, 0, k)>>
                           ELSE Append(sink, slice(dconn.down, 0, k))
                /\ dconn' = [dconn EXCEPT !.down = slice(dconn.down, k, Len(dconn.down))]
          /\ trace' = Append(trace, "c_bytes")
          /\ cpc' = cpc
       \/ /\ dconn.down = <<>>
          /\ dconn.srv = "closed"
          /\ dconn' = [dconn EXCEPT !.cli = "closed"]
          /\ trace' = Append(trace, "c_close")
          /\ cpc' = "completion"
          /\ sink' = sink
    /\ UNCHANGED <<pc, exit, Session, Net, fs, cmd, arg, replies, resolved, cop, last, resp,
                   c2s, s2c, ioFault, Threads>>

client_send_first_chunk_only ==
    /\ cpc = "stream"
    /\ cop.op = "stor"
    /\ IF cop.rest # <<>>
       THEN /\ dconn' = [dconn EXCEPT !.up = dconn.up \o slice(cop.rest, 0, ChunkSize)]
            /\ cop' = [cop EXCEPT !.rest = <<>>]
            /\ trace' = Append(trace, "c_bytes")
            /\ UNCHANGED <<cpc, last>>
       ELSE /\ dconn' = [dconn EXCEPT !.cli = "closed"]
            /\ trace' = Append(trace, "c_close")
            /\ cpc' = "completion"
            /\ UNCHANGED <<cop, last>>
    /\ UNCHANGED <<pc, exit, Session, Net, fs, cmd, arg, replies, resolved, resp, sink,
                   c2s, s2c, ioFault, Threads>>

\* stor_binary: one read of the source and sendall, or the end of the source;
\* sendall to a connection the server has closed may succeed or raise
client_send ==
    /\ cpc = "stream"
    /\ cop.op = "stor"
    /\ IF cop.rest # <<>>
       THEN \E sent \in (IF dconn.srv = "closed" THEN BOOLEAN ELSE {TRUE}) :
               IF sent
               THEN /\ dconn' = [dconn EXCEPT !.up = dconn.up \o slice(cop.rest, 0, ChunkSize)]
                    /\ cop' = [cop EXCEPT !.rest = slice(cop.rest, ChunkSize, Len(cop.rest))]
                    /\ trace' = Append(trace, "c_bytes")
                    /\ UNCHANGED <<cpc, last>>
               ELSE /\ dconn' = [dconn EXCEPT !.cli = "closed"]
                    /\ trace' = Append(trace, "c_close")
                    /\ Finish("OSError")
                    /\ cop' = cop
       ELSE /\ dconn' = [dconn EXCEPT !.cli = "closed"]
            /\ trace' = Append(trace, "c_close")
            /\ cpc' = "completion"
            /\ UNCHANGED <<cop, last>>
    /\ UNCHANGED <<pc, exit, Session, Net, fs, cmd, arg, replies, resolved, resp, sink,
                   c2s, s2c, ioFault, Threads>>

\* serve(): the banner, to the client
pair_banner ==
    /\ pc = "start"
    /\ Reply(<<220>>)
    /\ s2c' = Append(s2c, 220)
    /\ UNCHANGED <<Session, Net, fs, cmd, arg, resolved, Client, c2s, dconn, trace,
                   ioFault, Threads>>

\* as pair_command, were the argument taken as it was sent
pair_command_argument_as_sent ==
    /\ c2s # <<>>
    /\ dispatch(Head(c2s)[1], Head(c2s)[2])
    /\ c2s' = Tail(c2s)
    /\ s2c' = s2c \o replies'
    /\ ioFault' = (ioFault \/ replies' = <<421>>)
    /\ UNCHANGED <<Client, dconn, trace, Threads>>

\* serve(): the client's next line, name + " " + argument + CRLF, read by
\* read_command and dispatched, its replies sent
pair_command ==
    /\ c2s # <<>>
    /\ dispatch(Head(c2s)[1], read_command(Head(c2s)[2] \o CRLF))
    /\ c2s' = Tail(c2s)
    /\ s2c' = s2c \o replies'
    /\ ioFault' = (ioFault \/ replies' = <<421>>)
    /\ UNCHANGED <<Client, dconn, trace, Threads>>

\* accept() returns the client's data connection, or raises
pair_accept ==
    /\ pc = "accept"
    /\ pasv_listener \in backlog
    /\ \E accepted \in BOOLEAN :
          /\ accept_returns(accepted)
          /\ dconn' = IF accepted THEN [dconn EXCEPT !.srv = "open"] ELSE dconn
          /\ trace' = IF accepted THEN trace \o <<"accept", "s150">> ELSE trace
          /\ ioFault' = (ioFault \/ ~accepted)
    /\ s2c' = s2c \o replies'
    /\ UNCHANGED <<Client, c2s, Threads>>

\* os.listdir: the names in directory d, in any order
listdir(f, d) ==
    LET names == {slice(q, Len(d) + 1, Len(q)) :
                     q \in {q \in DOMAIN f : under(q, d) /\ dirname(q) = d}}
    IN  {l \in [1..Cardinality(names) -> names] : \A i, j \in DOMAIN l : l[i] = l[j] => i = j}

\* handle_LIST, lines 250-261: the line of one entry.  The runs of characters
\* that are the same in every line are kept as one element each.
ModeDir == "rwxr-xr-x 1 owner group "
ModeFile == "rw-r--r-- 1 owner group "
DateField == " Jan 01 00:00 "
list_line(f, real_dir, name) ==
    LET full == real_dir \o <<"/">> \o name
    IN  IF isdir(f, full)
        THEN <<"d", ModeDir, "0", DateField>> \o name \o CRLF
        ELSE <<"-", ModeFile>> \o str(Len(f[full].data)) \o <<DateField>> \o name \o CRLF

\* the lines of the entries names, in that order, one after the other
RECURSIVE list_bytes(_, _, _)
list_bytes(f, real_dir, names) ==
    IF names = <<>> THEN <<>>
    ELSE list_line(f, real_dir, Head(names)) \o list_bytes(f, real_dir, Tail(names))

\* as pair_transfer, were LIST and RETR to leave the data connection open
pair_transfer_leaves_open ==
    /\ pc = "transfer"
    /\ CASE cmd = "LIST" ->
              /\ transfer_LIST
              /\ LET real_dir == to_real_path(cwd, IF arg = <<>> THEN cwd ELSE arg)
                 IN  \E l \in listdir(fs, real_dir) :
                        \E n \in 0..Len(l) :
                           /\ dconn' = [dconn EXCEPT
                                           !.down = list_bytes(fs, real_dir, slice(l, 0, n))]
                           /\ ioFault' = (ioFault \/ n < Len(l))
         [] cmd = "RETR" ->
              \E sent \in BOOLEAN :
                 /\ transfer_RETR(sent)
                 /\ LET data == fs[to_real_path(cwd, arg)].data
                    IN  \E k \in (IF sent THEN {Len(data)} ELSE 0..Len(data)) :
                           dconn' = [dconn EXCEPT !.down = slice(data, 0, k)]
                 /\ ioFault' = (ioFault \/ ~sent)
         [] cmd = "STOR" ->
              LET opens == can_open_wb(fs, to_real_path(cwd, arg))
              IN  /\ \E eof \in BOOLEAN :
                        /\ eof => dconn.cli = "closed" \/ ~opens
                        /\ transfer_STOR(dconn.up, eof)
                        /\ ioFault' = (ioFault \/ (~eof /\ opens))
                  /\ dconn' = [dconn EXCEPT !.srv = "closed"]
    /\ s2c' = Append(s2c, replies'[Len(replies')])
    /\ trace' = trace \o (IF dconn'.down = <<>> THEN <<>> ELSE <<"s_bytes">>)
                      \o <<"s_close", "s_done">>
    /\ UNCHANGED <<Session, Net, cmd, arg, resolved, Client, c2s, Threads>>

\* the handler past its 150 reply: LIST and RETR write to the data connection
\* (all of it, or a part before a fault), STOR reads it to its end or to a
\* fault (or fails to open its file at once); the data connection is closed,
\* then the completion reply sent
pair_transfer ==
    /\ pc = "transfer"
    /\ CASE cmd = "LIST" ->
              /\ transfer_LIST
              /\ LET real_dir == to_real_path(cwd, IF arg = <<>> THEN cwd ELSE arg)
                 IN  \E l \in listdir(fs, real_dir) :
                        \E n \in 0..Len(l) :
                           /\ dconn' = [dconn EXCEPT
                                           !.down = list_bytes(fs, real_dir, slice(l, 0, n)),
                                           !.srv = "closed"]
                           /\ ioFault' = (ioFault \/ n < Len(l))
         [] cmd = "RETR" ->
              \E sent \in BOOLEAN :
                 /\ transfer_RETR(sent)
                 /\ LET data == fs[to_real_path(cwd, arg)].data
                    IN  \E k \in (IF sent THEN {Len(data)} ELSE 0..Len(data)) :
                           dconn' = [dconn EXCEPT !.srv = "closed", !.down = slice(data, 0, k)]
                 /\ ioFault' = (ioFault \/ ~sent)
         [] cmd = "STOR" ->
              LET opens == can_open_wb(fs, to_real_path(cwd, arg))
              IN  /\ \E eof \in BOOLEAN :
                        /\ eof => dconn.cli = "closed" \/ ~opens
                        /\ transfer_STOR(dconn.up, eof)
                        /\ ioFault' = (ioFault \/ (~eof /\ opens))
                  /\ dconn' = [dconn EXCEPT !.srv = "closed"]
    /\ s2c' = Append(s2c, replies'[Len(replies')])
    /\ trace' = trace \o (IF dconn'.down = <<>> THEN <<>> ELSE <<"s_bytes">>)
                      \o <<"s_close", "s_done">>
    /\ UNCHANGED <<Session, Net, cmd, arg, resolved, Client, c2s, Threads>>

PairNext ==
    \/ client_start
    \/ client_reply
    \/ client_dial
    \/ client_recv
    \/ client_send
    \/ pair_banner
    \/ pair_command
    \/ pair_accept
    \/ pair_transfer
    \/ serve_loop

PairSpec == PairInit /\ [][PairNext]_vars

\* ------------------------------------- the client's methods, one after another
\* The paired client and server again, the client calling every kind of
\* method, a caller whose sink or source may raise, and a second call made
\* while replies of the first are still unread.
\* replies left unread by earlier operations beyond which no method is called
MaxStale == 1

CtlOperations ==
    {[op |-> "login", name |-> Str_user, data |-> Str_123456],
     [op |-> "retr", name |-> <<"f">>, data |-> <<>>],
     [op |-> "stor", name |-> <<"f">>, data |-> <<1, 2>>],
     [op |-> "stor", name |-> <<"f", "/", "x">>, data |-> <<>>],
     [op |-> "rename", name |-> <<"f">>, data |-> <<"g">>],
     [op |-> "rename", name |-> <<"g">>, data |-> <<"f">>],
     [op |-> "pwd", name |-> <<>>, data |-> <<>>],
     [op |-> "delete", name |-> <<"g">>, data |-> <<>>],
     [op |-> "quit", name |-> <<>>, data |-> <<>>]}

ctl_start == client_call(CtlOperations, MaxStale)

CtlNext ==
    \/ ctl_start
    \/ client_reply
    \/ client_closed
    \/ client_dial
    \/ client_recv
    \/ client_send
    \/ caller_raises
    \/ pair_banner
    \/ pair_command
    \/ pair_accept
    \/ pair_transfer
    \/ serve_loop

CtlSpec == PairInit /\ [][CtlNext]_vars

\* ------------------------------------------------------ directory listings
\* The paired client and server over a root that already holds entries when
\* the server starts (FTPConfig.__post_init__ creates the root only when it
\* is missing): the client logs in, changes directory, uploads and lists.
\* size of the file the root may hold, two digits long
ListFileSize == 12
RootEntries ==
    {[name |-> <<"d">>, entry |-> Dir],
     [name |-> <<"f">>, entry |-> File([i \in 1..ListFileSize |-> 1])]}
ListRoots ==
    {[q \in {root} \cup {root \o <<"/">> \o e.name : e \in S} |->
         IF q = root THEN Dir
         ELSE (CHOOSE e \in S : root \o <<"/">> \o e.name = q).entry] : S \in SUBSET RootEntries}

ListOperations ==
    {[op |-> "login", name |-> Str_user, data |-> Str_123456],
     [op |-> "list", name |-> <<>>, data |-> <<>>],
     [op |-> "cwd", name |-> <<"d">>, data |-> <<>>],
     [op |-> "stor", name |-> <<"g">>, data |-> <<1>>],
     [op |-> "stor", name |-> <<"a", "\r", "b">>, data |-> <<1, 2>>]}

ListInit ==
    /\ pc = "start"
    /\ exit = "none"
    /\ logged_in = FALSE
    /\ username = None
    /\ cwd = <<"/">>
    /\ type_ = <<"I">>
    /\ rename_from = None
    /\ rnfrOk = FALSE
    /\ fs \in ListRoots
    /\ resolved = None
    /\ no_listener
    /\ no_line
    /\ one_thread
    /\ quiet_wire
    /\ cpc = "connect"
    /\ cop = NoOp
    /\ last = NoOp
    /\ resp = 0          \* no reply read yet: 0 is no reply code
    /\ sink = <<>>

list_start == client_call(ListOperations, MaxUnread)

ListNext ==
    \/ list_start
    \/ client_reply
    \/ client_dial
    \/ client_recv
    \/ client_send
    \/ pair_banner
    \/ pair_command
    \/ pair_accept
    \/ pair_transfer
    \/ serve_loop

ListSpec == ListInit /\ [][ListNext]_vars

\* ------------------------------------------------------- transfers, to their end
\* The paired client and server under fair scheduling: every thread that can
\* take a step takes one in the end; only the caller's next call is left free.
LiveOperations ==
    {[op |-> "login", name |-> Str_user, data |-> Str_123456],
     [op |-> "list", name |-> <<>>, data |-> <<>>],
     [op |-> "retr", name |-> <<"f">>, data |-> <<>>],
     [op |-> "retr", name |-> <<"g">>, data |-> <<>>],
     [op |-> "stor", name |-> <<"f">>, data |-> <<1, 2, 3>>],
     [op |-> "stor", name |-> <<>>, data |-> <<1>>]}

live_start == client_call(LiveOperations, MaxUnread)

LiveNext ==
    \/ live_start
    \/ client_reply
    \/ client_dial
    \/ client_recv
    \/ client_send
    \/ pair_banner
    \/ pair_command
    \/ pair_accept
    \/ pair_transfer
    \/ serve_loop

\* the client thread's next step, whichever its position allows
client_step == client_reply \/ client_dial \/ client_recv \/ client_send

\* the server thread's
server_step == pair_banner \/ pair_command \/ pair_accept \/ pair_transfer \/ serve_loop

\* ENABLED client_step and ENABLED server_step, written out from the guards
\* of the steps
client_can_step ==
    \/ cpc \in ReplyAwaited /\ s2c # <<>>
    \/ cpc = "dial"
    \/ cpc = "stream" /\ cop.op = "stor"
    \/ cpc = "stream" /\ cop.op \in {"list", "retr"}
                      /\ (dconn.down # <<>> \/ dconn.srv = "closed")
server_can_step ==
    \/ pc = "start"
    \/ pc = "read" /\ c2s # <<>>
    \/ pc = "accept" /\ pasv_listener \in backlog
    \/ pc = "transfer"
    \/ pc = "replied"

\* weak fairness of each thread, WF_<<cpc, s2c, trace>>(client_step) and
\* WF_pc(server_step): a thread that can take a step takes one in the end
\* (the subscripts are variables that every step of the thread changes)
Fairness ==
    /\ []<>(~client_can_step) \/ []<><<client_step>>_<<cpc, s2c, trace>>
    /\ []<>(~server_can_step) \/ []<><<server_step>>_pc

LiveSpec == PairInit /\ [][LiveNext]_vars /\ Fairness

\* ------------------------------------------------- several sessions at once
\* start_ftp_server gives every accepted control connection an FTPSession of
\* its own and a thread running its serve().  The variables of the session
\* part hold the attributes of the session whose thread runs, cur; parked holds
\* those of the other sessions.  The file system and the sockets of the
\* machine are the same for all.
\* sessions accepted at most
MaxSessions == 2

\* the attributes of the running session
self_ ==
    [pc |-> pc, exit |-> exit, logged_in |-> logged_in, username |-> username, cwd |-> cwd,
     type_ |-> type_, rename_from |-> rename_from, rnfrOk |-> rnfrOk,
     pasv_listener |-> pasv_listener, pasvFresh |-> pasvFresh, nAccepted |-> nAccepted,
     cmd |-> cmd, arg |-> arg, replies |-> replies, resolved |-> resolved]

\* FTPSession.__init__, and its thread not yet run
FTPSession ==
    [pc |-> "start", exit |-> "none", logged_in |-> FALSE, username |-> None, cwd |-> <<"/">>,
     type_ |-> <<"I">>, rename_from |-> None, rnfrOk |-> FALSE,
     pasv_listener |-> NoSock, pasvFresh |-> FALSE, nAccepted |-> 0,
     cmd |-> "", arg |-> <<>>, replies |-> <<>>, resolved |-> None]

MultiCommands ==
    {<<"USER", Str_user>>, <<"PASS", Str_123456>>, <<"CWD", <<"a">>>>, <<"MKD", <<"a">>>>,
     <<"RMD", <<"a">>>>, <<"RNFR", <<"a">>>>, <<"PASV", <<>>>>, <<"QUIT", <<>>>>}

MultiInit ==
    /\ pc = "start"
    /\ exit = "none"
    /\ fresh_session
    /\ no_listener
    /\ no_line
    /\ no_client
    /\ one_thread

\* the accept loop: one more connection, one more session and thread
start_ftp_server ==
    /\ Cardinality(DOMAIN parked) + 1 < MaxSessions
    /\ parked' = [i \in DOMAIN parked \cup {Cardinality(DOMAIN parked) + 2} |->
                     IF i \in DOMAIN parked THEN parked[i] ELSE FTPSession]
    /\ UNCHANGED <<pc, exit, Session, Net, fs, cmd, arg, replies, resolved, Client, Wire,
                   trace, ioFault, cur>>

\* as switch, were the pending rename source an attribute of the class
switch_rename_from_shared(i) ==
    /\ i \in DOMAIN parked
    /\ cur' = i
    /\ parked' = [j \in (DOMAIN parked \ {i}) \cup {cur} |->
                     IF j = cur THEN self_ ELSE parked[j]]
    /\ pc' = parked[i].pc
    /\ exit' = parked[i].exit
    /\ logged_in' = parked[i].logged_in
    /\ username' = parked[i].username
    /\ cwd' = parked[i].cwd
    /\ type_' = parked[i].type_
    /\ pasv_listener' = parked[i].pasv_listener
    /\ pasvFresh' = parked[i].pasvFresh
    /\ nAccepted' = parked[i].nAccepted
    /\ cmd' = parked[i].cmd
    /\ arg' = parked[i].arg
    /\ replies' = parked[i].replies
    /\ resolved' = parked[i].resolved
    /\ UNCHANGED <<rename_from, rnfrOk, sockState, backlog, fs, Client, Wire, trace, ioFault>>

\* the thread of session i runs next: self is now that session
switch(i) ==
    /\ i \in DOMAIN parked
    /\ cur' = i
    /\ parked' = [j \in (DOMAIN parked \ {i}) \cup {cur} |->
                     IF j = cur THEN self_ ELSE parked[j]]
    /\ pc' = parked[i].pc
    /\ exit' = parked[i].exit
    /\ logged_in' = parked[i].logged_in
    /\ username' = parked[i].username
    /\ cwd' = parked[i].cwd
    /\ type_' = parked[i].type_
    /\ rename_from' = parked[i].rename_from
    /\ rnfrOk' = parked[i].rnfrOk
    /\ pasv_listener' = parked[i].pasv_listener
    /\ pasvFresh' = parked[i].pasvFresh
    /\ nAccepted' = parked[i].nAccepted
    /\ cmd' = parked[i].cmd
    /\ arg' = parked[i].arg
    /\ replies' = parked[i].replies
    /\ resolved' = parked[i].resolved
    /\ UNCHANGED <<sockState, backlog, fs, Client, Wire, trace, ioFault>>

MultiNext ==
    \/ start_ftp_server
    \/ \E i \in 1..MaxSessions : switch(i)
    \/ serve_banner
    \/ serve_loop
    \/ \E c \in MultiCommands : serve_command(c[1], c[2])

MultiSpec == MultiInit /\ [][MultiNext]_vars

\* ------------------------------------------------------------------ claims
DataCmds == {"LIST", "RETR", "STOR"}
WriteCmds == {"STOR", "MKD", "RMD", "DELE", "RNFR"}
AuthCmds == {"PWD", "CWD", "TYPE", "PASV", "LIST", "RETR", "STOR", "MKD", "RMD", "DELE",
             "RNFR", "RNTO"}

\* the session is Authenticated as a user whose permission lacks / includes write
ReadOnlyUser == logged_in /\ username # None /\ "w" \notin users[username].perm
ReadWriteUser == logged_in /\ username # None /\ "w" \in users[username].perm

\* the step handles one command line named c
Handles(c) == pc = "read" /\ cmd' = c /\ pc' # "read"

\* C1: a command other than USER, PASS and QUIT that is received while the
\* session is not logged in is answered with 530.  (These handlers never
\* change logged_in, so the flag after the reply is the flag at reception.)
C1_AuthRequired ==
    (pc = "replied" /\ cmd \in AuthCmds /\ ~logged_in) => replies = <<530>>

\* C2: STOR, MKD, RMD, DELE and RNFR from a session authenticated as a
\* read-only user are answered with 550 and change neither the filesystem nor
\* the pending rename source nor the passive listener.
C2_ReadOnlyRefused ==
    [][ \A c \in WriteCmds :
          (Handles(c) /\ ReadOnlyUser) =>
              /\ replies' = <<550>>
              /\ pc' = "replied"
              /\ UNCHANGED <<fs, rename_from, pasv_listener, sockState>> ]_vars

C2_Witness ==
    /\ pc = "replied"
    /\ cmd = "RNFR"
    /\ ReadOnlyUser
    /\ replies = <<550>>
    /\ rename_from # None
    /\ pasv_listener # NoSock
    /\ exists(fs, to_real_path(cwd, arg))

\* C3: the filesystem changes only in steps of a session that is Authenticated
\* as a user whose permission includes write.
C3_MutationNeedsWrite ==
    [][ fs' # fs => ReadWriteUser ]_vars

\* C4: RNTO with no RNFR answered 350 since the start or the last RNTO is
\* answered 503, and every RNTO attempt (250, 550 or 503) leaves no pending
\* source, so that the RNTO after it is answered 503 as well.
C4_RntoSequence ==
    [][ /\ (~rnfrOk' => rename_from' = None)
        /\ (Handles("RNTO") /\ ~rnfrOk) => replies' = <<503>>
        /\ (Handles("RNTO") /\ rename_from = None) => replies' = <<503>>
        /\ Handles("RNTO") =>
              /\ replies' \in {<<250>>, <<550>>, <<503>>}
              /\ rename_from' = None ]_vars

C4_Witness ==
    /\ pc = "replied"
    /\ cmd = "RNTO"
    /\ replies = <<550>>
    /\ rename_from = None
    /\ ~rnfrOk

\* C5: RNFR from an authenticated read-write session replies 350 and records
\* the resolved path exactly when that path exists; otherwise it replies 550
\* and no pending source is left.  (RNFR changes neither cwd nor the
\* filesystem nor the login, so they are read after the reply.)
C5_RnfrRecords ==
    (pc = "replied" /\ cmd = "RNFR" /\ ReadWriteUser) =>
        IF exists(fs, to_real_path(cwd, arg))
        THEN replies = <<350>> /\ rename_from = to_real_path(cwd, arg)
        ELSE replies = <<550>> /\ rename_from = None

C5_Witness ==
    /\ pc = "replied"
    /\ cmd = "RNFR"
    /\ ReadWriteUser
    /\ rnfrOk
    /\ replies = <<550>>
    /\ rename_from = None

\* C6: the login state machine: USER known -> 331 and the name recorded, USER
\* unknown -> 530; PASS with no name recorded -> 503, PASS with the recorded
\* user's password -> 230 and logged in, PASS with another password -> 530 and
\* not logged in; PASS never changes the recorded name.
C6_LoginMachine ==
    [][ /\ Handles("USER") =>
              IF arg' \in DOMAIN users
              THEN replies' = <<331>> /\ username' = arg'
              ELSE replies' = <<530>>
        /\ Handles("PASS") =>
              /\ username' = username
              /\ IF username = None THEN replies' = <<503>>
                 ELSE IF arg' = users[username].password
                 THEN replies' = <<230>> /\ logged_in'
                 ELSE replies' = <<530>> /\ ~logged_in' ]_vars

\* a wrong password after a login that had got as far as a pending rename
C6_Witness ==
    /\ pc = "replied"
    /\ cmd = "PASS"
    /\ replies = <<530>>
    /\ ~logged_in
    /\ username = Str_user
    /\ rename_from # None

\* a real path is the root directory itself or lies beneath it
Contained(real) == real = root \/ startswith(real, root \o <<"/">>)

\* C7: to_real_path returns the root directory or a path beneath it, for every
\* reachable cwd and every argument.
C7_Containment ==
    pc = "path_done" => Contained(resolved)

\* "../rr" from "/a../r" would be the sibling "/rr" if ".." were not collapsed
C7_Witness ==
    /\ pc = "path_done"
    /\ arg = <<".", ".", "/", "r", "r">>
    /\ cwd # <<"/">>
    /\ resolved # root
    /\ Contained(resolved)

\* a virtual path: starts with "/", no empty, "." or ".." component
WellFormedCwd(c) ==
    /\ startswith(c, <<"/">>)
    /\ c = <<"/">> \/ \A i \in 1..Len(split(Tail(c))) :
                         split(Tail(c))[i] \notin {<<>>, <<".">>, DotDot}

\* C8: cwd is always a well-formed virtual path at or below "/", and CWD ..
\* from an authenticated session whose cwd is "/" replies 250 and leaves cwd "/".
C8_CwdStaysInRoot ==
    [][ /\ WellFormedCwd(cwd')
        /\ (Handles("CWD") /\ arg' = DotDot /\ logged_in /\ cwd = <<"/">>) =>
              (replies' = <<250>> /\ cwd' = <<"/">>) ]_vars

\* the call of accept_data_connection is reached by the command c with argument a
ReachesAccept(c, a) ==
    /\ logged_in
    /\ c = "RETR" => isfile(fs, to_real_path(cwd, a))
    /\ c = "STOR" => ensure_write_perm /\ can_makedirs(fs, dirname(to_real_path(cwd, a)))

\* C9: at most one connection is accepted per PASV; accept_data_connection,
\* when it returns, has closed and cleared the listener; a data command that
\* reaches the accept step with no PASV since the last one that did is
\* answered 425 alone.
C9_ListenerSingleUse ==
    [][ /\ nAccepted' <= 1
        /\ \A c \in DataCmds :
              /\ (Handles(c) /\ ReachesAccept(c, arg') /\ ~pasvFresh) =>
                    (replies' = <<425>> /\ pc' = "replied")
              /\ (Handles(c) /\ ReachesAccept(c, arg') /\ pc' = "replied") =>
                    (pasv_listener' = NoSock /\ \A i \in SockIds : sockState'[i] = "closed")
        /\ (pc = "accept" /\ pc' # "accept") =>
              (pasv_listener' = NoSock /\ \A i \in SockIds : sockState'[i] = "closed") ]_vars

C9_Witness ==
    /\ pc = "replied"
    /\ cmd = "LIST"
    /\ logged_in
    /\ nAccepted = 1
    /\ ~pasvFresh
    /\ replies = <<425>>

\* C10: the only socket that can be open is the session's current listener, so
\* at most one is open and a listener that a later PASV replaced is closed and
\* holds no connection to accept.
C10_OneListener ==
    /\ \A i \in SockIds : sockState[i] # "closed" => i = pasv_listener
    /\ Cardinality({i \in SockIds : sockState[i] # "closed"}) <= 1
    /\ \A i \in backlog : sockState[i] = "listening"

\* the listener of a second PASV, after the first was never accepted
C10_Witness ==
    /\ pc = "replied"
    /\ cmd = "PASV"
    /\ pasv_listener = 2
    /\ sockState[2] = "listening"
    /\ sockState[1] = "closed"
    /\ nAccepted = 0

\* the reply codes of a sequence of replies
Codes(r) == {r[i] : i \in DOMAIN r}

\* C11: a 150 reply is sent only by the step in which the handler of LIST,
\* RETR or STOR has just accepted a data connection for that command; a data
\* command refused for the login (530), the permission (550), a missing file
\* (RETR, 550) or at the accept step (425) is answered by that one reply.
C11_OpenAfterAccept ==
    [][ /\ (150 \in Codes(replies') /\ 150 \notin Codes(replies)) =>
              /\ pc = "accept"
              /\ cmd \in DataCmds
              /\ cmd' = cmd
              /\ nAccepted' = nAccepted + 1
              /\ replies' = <<150>>
        /\ \A c \in DataCmds :
              /\ (Handles(c) /\ ~logged_in) => replies' = <<530>>
              /\ (Handles(c) /\ logged_in /\ c = "STOR" /\ ~ensure_write_perm) =>
                    replies' = <<550>>
              /\ (Handles(c) /\ logged_in /\ c = "RETR"
                     /\ ~isfile(fs, to_real_path(cwd, arg'))) => replies' = <<550>>
              /\ (Handles(c) /\ pc' = "replied") => replies' \in {<<530>>, <<550>>, <<425>>}
        /\ (pc = "accept" /\ pc' = "replied") => replies' = <<425>> ]_vars

\* accept() failed for a STOR that had passed the login and permission checks
C11_Witness ==
    /\ pc = "replied"
    /\ cmd = "STOR"
    /\ ReadWriteUser
    /\ nAccepted = 0
    /\ pasv_listener = NoSock
    /\ pasvFresh = FALSE
    /\ replies = <<425>>
    /\ \E i \in SockIds : sockState[i] = "closed" /\ i \notin backlog

\* C15: serve() ends only by QUIT or by the client closing the control
\* connection: no command ends the session by a fault of its handler.
C15_FaultsAnswered ==
    pc = "done" => exit \in {"quit", "eof"}

\* a line that is three digits and then a space or a hyphen
ReplyShaped(line) ==
    /\ Len(line) >= 4
    /\ isdigit(slice(line, 0, 3))
    /\ line[4] \in {" ", "-"}

\* C17: a single line "<code> <text>" decodes to (code, text); after a first
\* line "<code>-..." the reply ends at the first line that starts with
\* "<code> ", the same three digits, and yields that code and that line's text;
\* any other line, "<code>-..." and other codes included, is read over.
C17_ReplyDecoding ==
    [][ /\ (cpc = "response" /\ ReplyShaped(cop'.line) /\ cop'.line[4] = " ") =>
              /\ cpc' = "returned"
              /\ resp' = Returned(int(slice(cop'.line, 0, 3)),
                                  slice(cop'.line, 4, Len(cop'.line)))
        /\ (cpc = "response" /\ ReplyShaped(cop'.line) /\ cop'.line[4] = "-") =>
              cpc' = "response_more"
        /\ (cpc = "response_more" /\ cpc' # "raised") =>
              IF cop'.final
              THEN /\ cpc' = "returned"
                   /\ resp' = Returned(int(cop.code3), slice(cop'.line, 4, Len(cop'.line)))
              ELSE cpc' = "response_more" ]_vars

\* C18: the first line of a reply is accepted exactly when it is three digits
\* followed by a space or a hyphen; every other first line raises
\* FTPProtocolError.
C18_ReplyLineShape ==
    (cop.op = "read_response" /\ cpc # "response" /\ cop.first) =>
        (cpc = "raised" <=> ~ReplyShaped(cop.line))

\* the characters of text between its first "(" and the first ")" after it
Interior(text) ==
    LET i == CHOOSE k \in 1..Len(text) : text[k] = "(" /\ \A j \in 1..(k - 1) : text[j] # "("
        j == CHOOSE k \in (i + 1)..Len(text) :
                 text[k] = ")" /\ \A m \in (i + 1)..(k - 1) : text[m] # ")"
    IN  SubSeq(text, i + 1, j - 1)

\* the text has no "(", no ")" after it, or not six comma-separated tokens between
MalformedPasv(text) ==
    \/ \A k \in 1..Len(text) : text[k] # "("
    \/ \A k \in 1..Len(text) : text[k] # ")"
    \/ /\ \E i, j \in 1..Len(text) : i < j /\ text[i] = "(" /\ text[j] = ")"
          /\ \A m \in 1..(i - 1) : text[m] # "("
       /\ Cardinality({k \in 1..Len(Interior(text)) : Interior(text)[k] = ","}) # 5

\* C19: the 227 text of a listener at h1.h2.h3.h4, port p, carries
\* (h1,h2,h3,h4,p div 256,p mod 256) and _enter_passive_mode parses it back to
\* that host and to that port; a text without "(" or ")" or without six tokens
\* between them raises FTPProtocolError and no connection is attempted.
C19_PasvRoundTrip ==
    cpc = "parsed" =>
        /\ pc = "replied" =>
              /\ Interior(cop.text) =
                    str(sockState.octets[1]) \o <<",">> \o str(sockState.octets[2]) \o <<",">>
                    \o str(sockState.octets[3]) \o <<",">> \o str(sockState.octets[4])
                    \o <<",">> \o str(sockState.port \div 256)
                    \o <<",">> \o str(sockState.port % 256)
              /\ resp = [kind |-> "connect", host |-> sockState.host,
                         port |-> sockState.port]
        /\ MalformedPasv(cop.text) => resp = FTPProtocolError

\* a port whose two bytes differ, on a host with different octets
C19_Witness ==
    /\ cpc = "parsed"
    /\ pc = "replied"
    /\ sockState.port = 2121
    /\ sockState.octets = <<10, 0, 0, 255>>
    /\ resp.kind = "connect"
    /\ resp.port = 2121

\* C20: a command sent as "<COMMAND> <A>" CRLF is decoded by serve() to that
\* command name and to an argument equal to A, spaces at either end included;
\* a command without argument goes on the wire as its name and CRLF, with no
\* space, and is decoded with an empty argument.
C20_CommandRoundTrip ==
    /\ (cpc = "response" /\ pc = "read") =>
          c2s = IF cop.has_arg THEN cop.name \o <<" ">> \o cop.arg \o CRLF
                ELSE cop.name \o CRLF
    /\ pc = "dispatch" =>
          /\ cmd = cop.name
          /\ arg = IF cop.has_arg THEN cop.arg ELSE <<>>
          /\ c2s = <<>>

\* an argument with a space at each end
C20_Witness ==
    /\ pc = "dispatch"
    /\ cop.has_arg
    /\ cop.arg = <<" ", "a", ".", " ">>
    /\ arg = cop.arg

\* the first place of event e in the trace, 0 if it has not happened
At(e) == IF \E i \in DOMAIN trace : trace[i] = e
         THEN CHOOSE i \in DOMAIN trace : trace[i] = e /\ \A j \in 1..(i - 1) : trace[j] # e
         ELSE 0
\* b has happened only if a happened before it
Precedes(a, b) == At(b) # 0 => At(a) # 0 /\ At(a) < At(b)
\* every a in the trace comes before the first b
AllBefore(a, b) == At(b) # 0 => \A i \in DOMAIN trace : trace[i] = a => i < At(b)

\* C12: in every transfer between the paired client and server: PASV is sent
\* and 227 received before the client opens the data connection, that before
\* the data command is sent, that before the server accepts and sends 150;
\* bytes move only after 150 (sent, for the server's bytes; read, for the
\* client's); the producer closes the data connection after its last byte; the
\* server closes its end before it sends the completion reply; the client
\* reads the completion reply only after closing its end at end of stream.
C12_TransferOrder ==
    /\ Precedes("PASV", "r227")
    /\ Precedes("r227", "dial")
    /\ Precedes("dial", "cmd")
    /\ Precedes("cmd", "accept")
    /\ Precedes("accept", "s150")
    /\ Precedes("s150", "r150")
    /\ Precedes("s150", "s_bytes")
    /\ Precedes("r150", "c_bytes")
    /\ Precedes("s_bytes", "c_bytes") \/ cop.op = "stor"
    /\ cop.op = "stor" => AllBefore("c_bytes", "c_close")
    /\ cop.op \in {"list", "retr"} => AllBefore("s_bytes", "s_close")
    /\ Precedes("s150", "s_close")
    /\ Precedes("s_close", "s_done")
    /\ Precedes("r150", "c_close") \/ At("r150") = 0
    /\ Precedes("c_close", "r_done")
    /\ Precedes("s_done", "r_done")

\* a download that ran through every event, bytes included
C12_Witness ==
    /\ last.op = "retr"
    /\ last.res = "ok"
    /\ cpc = "idle"
    /\ At("c_bytes") # 0
    /\ At("r_done") = Len(trace)

\* the client takes the next reply off the control connection
ReadsReply == s2c # <<>> /\ s2c' = Tail(s2c)

\* C13: in list_lines, retr_binary and stor_binary, a reply to the data command
\* other than 125 / 150 ends the operation with FTPProtocolError, the data
\* socket closed and no byte moved to the sink or from the source; a
\* completion reply other than 226 / 250 ends it with FTPProtocolError,
\* whatever was transferred.
C13_ReplyCheckpoints ==
    [][/\ (cpc = "cmd" /\ ReadsReply /\ Head(s2c) \notin {125, 150})
            => /\ cpc' = "idle"
               /\ last'.res = "FTPProtocolError"
               /\ last'.op = cop.op
               /\ dconn'.cli = "closed"
               /\ sink' = <<>>
               /\ cop.rest = cop.data
               /\ dconn'.up = <<>>
       /\ (cpc = "completion" /\ ReadsReply /\ Head(s2c) \notin {226, 250})
            => /\ cpc' = "idle"
               /\ last'.res = "FTPProtocolError"
               /\ last'.op = cop.op]_vars

\* a download whose every byte arrived and whose completion reply was 550
C13_Witness ==
    /\ cpc = "idle"
    /\ last.op = "retr"
    /\ last.res = "FTPProtocolError"
    /\ resp = 550
    /\ At("r_done") # 0
    /\ Len(concat(sink)) = MaxPayload

\* C14: stor_binary(name, B) and then retr_binary(name, sink), on a session
\* logged in as a read-write user, in step with its server, name not naming a
\* directory and no input/output fault in either transfer: both succeed and
\* the chunks given to the sink, concatenated, are B.
C14_RoundTrip ==
    [][(/\ cop.op = "retr"
        /\ cpc # "idle"
        /\ cpc' = "idle"
        /\ last.op = "stor"
        /\ last.name = cop.name
        /\ last.pre
        /\ ~last.fault
        /\ ~ioFault)
          => /\ last.res = "ok"
             /\ last'.res = "ok"
             /\ concat(sink') = last.data]_vars

\* the download has delivered an upload longer than a chunk and not a whole
\* number of chunks
C14_Witness ==
    /\ cop.op = "retr"
    /\ cpc = "completion"
    /\ last.op = "stor"
    /\ last.name = cop.name
    /\ last.pre
    /\ last.res = "ok"
    /\ Len(last.data) > ChunkSize
    /\ Len(last.data) % ChunkSize # 0
    /\ Len(sink) > 1
    /\ concat(sink) = last.data

\* what the claim names of session i: loggedIn, username, cwd, the pending
\* rename source and the passive listener
Attributes(i) ==
    LET s == IF i = cur THEN self_ ELSE parked[i]
    IN  <<s.logged_in, s.username, s.cwd, s.rename_from, s.pasv_listener>>

\* C16: with several sessions served at once, no step of one session's
\* thread changes the loggedIn flag, username, cwd, pending rename source or
\* passive listener of another session, and passing the processor from one
\* thread to another changes those of none.
C16_SessionsApart ==
    [][\A i \in DOMAIN parked \cup {cur} :
          (i # cur \/ cur' # cur) => Attributes(i)' = Attributes(i)]_vars

\* one session has just removed the directory another session, logged in and
\* with a listener and a pending rename of its own, has as its cwd
C16_Witness ==
    /\ pc = "replied"
    /\ cmd = "RMD"
    /\ replies = <<250>>
    /\ \E i \in DOMAIN parked :
          /\ parked[i].logged_in
          /\ parked[i].cwd = <<"/", "a">>
          /\ parked[i].rename_from # None
          /\ parked[i].pasv_listener # NoSock
          /\ pasv_listener # NoSock
          /\ parked[i].pasv_listener # pasv_listener

\* the command names serve() dispatches on
KnownCommands ==
    {"USER", "PASS", "PWD", "CWD", "TYPE", "PASV", "LIST", "RETR", "STOR", "MKD", "RMD",
     "DELE", "RNFR", "RNTO", "QUIT"}
UnknownAnswered502 == (pc = "replied" /\ cmd # "" /\ cmd \notin KnownCommands) => replies = <<502>>

\* C21 (as stated): every reply the server sends carries one of the listed
\* codes, and an unrecognized command name is answered with 502.
C21_ListedCodesOnly ==
    /\ \A i \in DOMAIN replies : replies[i] \in ListedCodes
    /\ UnknownAnswered502

\* C21 (amended): every reply the server sends carries one of the listed codes
\* or 200, the answer to TYPE, and an unrecognized command name is answered
\* with 502.
C21_ReplyCodes ==
    /\ \A i \in DOMAIN replies : replies[i] \in ListedCodes \cup {200}
    /\ \A i \in DOMAIN replies : replies[i] = 200 => cmd = "TYPE"
    /\ UnknownAnswered502

\* an unrecognized command has been answered
C21_Witness ==
    /\ pc = "replied"
    /\ cmd = "NOOP"
    /\ replies = <<502>>

\* C22: login(user, password) sends USER; on 230 it succeeds without sending
\* PASS; on 331 it sends PASS once and succeeds iff the reply is 230 or 202;
\* on any other reply to USER it fails with FTPProtocolError without sending
\* PASS.  Against the paired server, in step with it, login succeeds iff user
\* is in the user table and password is that user's password.
C22_Login ==
    [][/\ (cpc = "user" /\ ReadsReply)
            => CASE Head(s2c) = 230 -> cpc' = "idle" /\ last'.res = "ok" /\ c2s' = c2s
                 [] Head(s2c) = 331 -> cpc' = "pass" /\ c2s' = Append(c2s, <<"PASS", cop.data>>)
                 [] OTHER -> cpc' = "idle" /\ last'.res = "FTPProtocolError" /\ c2s' = c2s
       /\ (cpc = "pass" /\ ReadsReply)
            => /\ cpc' = "idle"
               /\ c2s' = c2s
               /\ last'.res = "ok" <=> Head(s2c) \in {230, 202}
       /\ (cop.op = "login" /\ cop.sync /\ cpc # "idle" /\ cpc' = "idle")
            => (last'.res = "ok"
                  <=> cop.name \in DOMAIN users /\ users[cop.name].password = cop.data)]_vars

\* the server has read every command sent and is back at its read
ServerQuiet == c2s = <<>> /\ pc \in {"read", "replied", "done"}

\* C23: rename(old, new) sends RNTO only after RNFR was answered 350, fails
\* with FTPProtocolError if RNFR is not answered 350 or RNTO is not answered
\* 250, and once rename() has returned, by success or by failure at either
\* phase, the server session (having read what was sent) holds no pending
\* rename source.
C23_Rename ==
    [][/\ (c2s' # c2s /\ c2s' # <<>> /\ c2s'[Len(c2s')][1] = "RNTO")
            => cpc = "rnfr" /\ ReadsReply /\ Head(s2c) = 350
       /\ (cpc = "rnfr" /\ ReadsReply /\ Head(s2c) # 350)
            => cpc' = "idle" /\ last'.res = "FTPProtocolError"
       /\ (cpc = "rnto" /\ ReadsReply)
            => cpc' = "idle" /\ (last'.res = "ok" <=> Head(s2c) = 250)
       /\ (cpc' = "idle" /\ last'.op = "rename" /\ ServerQuiet')
            => rename_from' = None]_vars

\* C24: quit() from any connected state returns without raising, whether QUIT
\* could be sent and its reply read or not, and leaves the client without
\* socket and reader; on a client not connected it does nothing.  The server
\* answers QUIT with 221 in any login state and processes no further command
\* of the session.
C24_Quit ==
    [][/\ cop'.op = "quit" => cpc' \in {"quit", "closed"}
       /\ (cop.op = "quit" /\ cpc = "quit" /\ cpc' # "quit")
            => cpc' = "closed" /\ last'.op = "quit" /\ last'.res = "ok"
       /\ (cpc = "closed" /\ cop' # cop /\ cop'.op = "quit")
            => cpc' = "closed" /\ last'.res = "ok" /\ UNCHANGED <<c2s, s2c, dconn>>
       /\ (pc = "read" /\ cmd' = "QUIT") => replies' = <<221>> /\ pc' = "done"
       /\ pc = "done" => UNCHANGED <<pc, Session, Net, fs, cmd, replies>>]_vars

\* quit() has returned on a connection whose server had gone before answering
C24_Witness ==
    /\ cpc = "closed"
    /\ last.op = "quit"
    /\ last.res = "ok"
    /\ pc = "done"
    /\ exit = "fault"
    /\ c2s # <<>>

\* C27: every non-empty command line a session receives produces exactly one
\* reply, or, for a transfer that got as far as 150, exactly 150 and then one
\* completion reply, 226 or 550, sent before the next command is read.
C27_OneReplyPerCommand ==
    [][/\ (pc' \in {"replied", "done"} /\ cmd' # "" /\ exit' # "eof")
            => \/ Len(replies') = 1 /\ replies'[1] # 150
               \/ Len(replies') = 2 /\ replies'[1] = 150 /\ replies'[2] \in {226, 550}
       /\ pc \in {"accept", "transfer"} => cmd' = cmd /\ arg' = arg]_vars

\* C28: whenever list_lines, retr_binary or stor_binary has returned, normally
\* or by raising, the data connection it opened is closed; the data
\* connection the server accepted is closed when the handler has returned.
C28_DataChannelClosed ==
    /\ cpc \in {"idle", "closed"} => dconn.cli # "open"
    /\ pc \in {"read", "replied", "done"} => dconn.srv # "open"

\* C29: while the session stays Authenticated its username changes only by a
\* PASS answered 230: a USER command after a successful login changes neither
\* the effective user nor the permission.
C29_VerifiedUser ==
    [][(logged_in /\ logged_in' /\ (username' # username \/ user_perm' # user_perm))
          => cmd' = "PASS" /\ replies' = <<230>>]_vars

\* C30: whenever a client operation begun in step with the server has
\* returned, normally or by raising, and the server has done with its
\* commands, no reply is left unread.
C30_ControlInSync ==
    (cpc = "idle" /\ last.op # "none" /\ last.sync /\ ServerQuiet) => s2c = <<>>

\* C25: connect succeeds only if the first reply read is code 220; a banner
\* with any other code, a malformed banner or a failure to open the TCP
\* connection makes it fail with FTPProtocolError.  The server sends 220 as
\* the first reply of a session, before it reads any command.
C25_Connect ==
    /\ cpc = "idle" => resp.kind = "return" /\ resp.code = 220
    /\ cpc = "raised" => resp = FTPProtocolError
    /\ pc = "replied" => replies = <<220>> /\ cmd = ""

\* list_lines, lines 251-254: the lines it returns for the bytes it received
list_lines(chunks) ==
    LET kept == SelectSeq(splitlines(concat(chunks)), LAMBDA l : strip(l) # <<>>)
    IN  [i \in DOMAIN kept |-> rstrip_chars(kept[i], {"\r", "\n"})]

\* the names os.listdir finds in directory d
entry_names(f, d) ==
    {slice(q, Len(d) + 1, Len(q)) : q \in {q \in DOMAIN f : under(q, d) /\ dirname(q) = d}}

\* line l of a listing is the line of entry name of directory d: its type
\* letter, its size field and its name field are that entry's
LineOf(l, f, d, name) ==
    LET at == find(l, DateField, 0)
        full == d \o <<"/">> \o name
    IN  /\ at >= 3
        /\ slice(l, at + 1, Len(l)) = name
        /\ l[1] = (IF isdir(f, full) THEN "d" ELSE "-")
        /\ slice(l, 2, at) = (IF isdir(f, full) THEN <<"0">> ELSE str(Len(f[full].data)))

\* C26: list_lines called in step with the server on an authenticated
\* session, no input/output fault in the transfer: the server has sent 150,
\* then one line for each entry of the directory and nothing else (type d and
\* size 0 for a directory, the size for a file), has closed the data
\* connection and then sent 226; list_lines returns those lines, and for an
\* empty directory the empty list.
C26_Listing ==
    (cpc = "idle" /\ last.op = "list" /\ last.sync /\ logged_in /\ ~last.fault)
       => LET d == to_real_path(cwd, cwd)
              names == entry_names(fs, d)
              lines == list_lines(sink)
          IN  /\ last.res = "ok"
              /\ resp = 226
              /\ At("s150") # 0 /\ At("s150") < At("s_close") /\ At("s_close") < At("s_done")
              /\ AllBefore("s_bytes", "s_close")
              /\ dconn.srv = "closed"
              /\ Len(lines) = Cardinality(names)
              /\ \A n \in names : \E i \in DOMAIN lines : LineOf(lines[i], fs, d, n)
              /\ names = {} => lines = <<>>

\* C31: the root directory exists in every reachable state: no command of
\* any session, RMD, DELE or RNFR/RNTO on an argument that resolves to the
\* root included, removes or renames it.
C31_RootExists ==
    /\ root \in DOMAIN fs
    /\ fs[root].dir

\* C32: a STOR on a session logged in as a read-write user that is answered
\* 425 because the session has no passive listener leaves the filesystem as
\* it was: no file and no directory is created.
C32_RefusedStorFrame ==
    [][(/\ pc = "read"
        /\ cmd' = "STOR"
        /\ logged_in
        /\ ensure_write_perm
        /\ pasv_listener = NoSock
        /\ replies' = <<425>>)
          => fs' = fs]_vars

\* C33: when serve() has ended, by QUIT or by the client closing the control
\* connection, the session holds no open passive listener: every socket that
\* PASV opened has been closed.
C33_NoListenerAtEnd ==
    (pc = "done" /\ exit \in {"quit", "eof"})
       => /\ pasv_listener = NoSock
          /\ \A i \in SockIds : sockState[i] = "closed"

Transfers == {"list", "retr", "stor"}

====
